---- MODULE Spec2Model ----
(***************************************************************************)
(* Translation Cost Calculator: the Trados CSV column detector and parser, *)
(* the analysis value objects, the rate hierarchy and the cost engine.     *)
(*                                                                         *)
(* Text is a sequence of symbols.  A symbol is a one-character string, or  *)
(* (in header lines) a whole header word that the code only ever tests     *)
(* with substring membership.  Money is an integer count of 1/100000 EUR   *)
(* (one place finer than a stored rate), floats are integer thousandths.   *)
(***************************************************************************)
EXTENDS Integers, Sequences, FiniteSets, TLC

VARIABLES
    rateTable,   \* rows of translator_rates, in insertion order
    rateQuery,   \* arguments of the last find_rate_for_project call
    rateResult,  \* its result
    languagePairs, \* rows of language_pairs, in insertion order
    costIn,      \* inputs of the last cost calculation
    costOut,     \* its result
    report,      \* the lines of the CSV file handed to the parser
    parseOut,    \* what the last parser operation returned
    mapIn,       \* arguments of the last validate_mapping call
    mapOut,      \* its result
    callIn,      \* arguments of the last call of a conversion or model method
    callOut      \* its result

vars == <<rateTable, rateQuery, rateResult, languagePairs, costIn, costOut, report, parseOut, mapIn, mapOut, callIn, callOut>>

\* Python's None, and a present optional value
NoneV == <<>>
Some(x) == <<x>>
IsNone(o) == o = <<>>
Get(o) == o[1]

Max(a, b) == IF a >= b THEN a ELSE b
Min(a, b) == IF a <= b THEN a ELSE b

\* sum(s) and the concatenation of a list of lists, by halves
RECURSIVE SumSeq(_)
SumSeq(s) ==
    IF s = <<>> THEN 0
    ELSE IF Len(s) = 1 THEN s[1]
    ELSE LET h == Len(s) \div 2
         IN  SumSeq(SubSeq(s, 1, h)) + SumSeq(SubSeq(s, h + 1, Len(s)))

RECURSIVE FlattenSeq(_)
FlattenSeq(ss) ==
    IF ss = <<>> THEN <<>>
    ELSE IF Len(ss) = 1 THEN ss[1]
    ELSE LET h == Len(ss) \div 2
         IN  FlattenSeq(SubSeq(ss, 1, h)) \o FlattenSeq(SubSeq(ss, h + 1, Len(ss)))

(***************************************************************************)
(* Python string primitives over symbol sequences                          *)
(***************************************************************************)

\* s[i:].startswith(sep), i 1-based
MatchAt(s, sep, i) ==
    /\ i + Len(sep) - 1 <= Len(s)
    /\ SubSeq(s, i, i + Len(sep) - 1) = sep

\* sub in s
ContainsSeq(s, sub) == \E i \in 1..(Len(s) + 1) : MatchAt(s, sub, i)

\* s.find(sep, from): the first match at or after `from`, 0 when there is none
NextMatch(s, sep, from) ==
    LET C == {i \in from..(Len(s) + 1) : MatchAt(s, sep, i)}
    IN  IF C = {} THEN 0 ELSE CHOOSE i \in C : \A j \in C : i <= j

\* s.split(sep): cut at each occurrence of sep, scanning left to right
RECURSIVE SplitFrom(_, _, _)
SplitFrom(s, sep, from) ==
    LET m == NextMatch(s, sep, from)
    IN  IF m = 0 THEN <<SubSeq(s, from, Len(s))>>
        ELSE <<SubSeq(s, from, m - 1)>> \o SplitFrom(s, sep, m + Len(sep))

\* the same for a one-symbol separator, by halves: the last piece of the left
\* half and the first piece of the right half are one piece
RECURSIVE SplitOn(_, _)
SplitOn(s, c) ==
    IF s = <<>> THEN << <<>> >>
    ELSE IF Len(s) = 1 THEN (IF s[1] = c THEN << <<>>, <<>> >> ELSE <<s>>)
    ELSE LET h == Len(s) \div 2
             L == SplitOn(SubSeq(s, 1, h), c)
             R == SplitOn(SubSeq(s, h + 1, Len(s)), c)
         IN  SubSeq(L, 1, Len(L) - 1) \o <<L[Len(L)] \o R[1]>> \o SubSeq(R, 2, Len(R))

\* s.lstrip(chars), s.rstrip(chars), s.strip(chars)
LStrip(s, chars) ==
    LET keep == {i \in 1..Len(s) : s[i] \notin chars}
    IN  IF keep = {} THEN <<>>
        ELSE SubSeq(s, CHOOSE i \in keep : \A j \in keep : i <= j, Len(s))

RStrip(s, chars) ==
    LET keep == {i \in 1..Len(s) : s[i] \notin chars}
    IN  IF keep = {} THEN <<>>
        ELSE SubSeq(s, 1, CHOOSE i \in keep : \A j \in keep : i >= j)

StripChars(s, chars) == RStrip(LStrip(s, chars), chars)

Whitespace == {" "}
Strip(s) == StripChars(s, Whitespace)

\* s.replace(old, ""), old a single symbol
RemoveSym(s, old) == SelectSeq(s, LAMBDA c : c # old)

\* sep.join(parts)
RECURSIVE JoinSeq(_, _)
JoinSeq(parts, sep) ==
    IF parts = <<>> THEN <<>>
    ELSE IF Len(parts) = 1 THEN parts[1]
    ELSE LET h == Len(parts) \div 2
         IN  JoinSeq(SubSeq(parts, 1, h), sep) \o sep \o JoinSeq(SubSeq(parts, h + 1, Len(parts)), sep)

\* s.lower(), symbol by symbol
LowerSym(c) ==
    CASE c = "E" -> "e"
      [] c = "N" -> "n"
      [] c = "D" -> "d"
      [] OTHER -> c
Lower(s) == [i \in 1..Len(s) |-> LowerSym(s[i])]

(***************************************************************************)
(* MatchCategoryType                                                       *)
(***************************************************************************)
CONTEXT_MATCH == "Context Match"
REPETITIONS == "Repetitions"
EXACT_MATCH == "100%"
HIGH_FUZZY == "95% - 99%"
MEDIUM_HIGH_FUZZY == "85% - 94%"
MEDIUM_FUZZY == "75% - 84%"
LOW_FUZZY == "50% - 74%"
NO_MATCH == "No Match"
MT_MATCH == "MT Match"

get_standard_categories ==
    <<CONTEXT_MATCH, REPETITIONS, EXACT_MATCH, HIGH_FUZZY,
      MEDIUM_HIGH_FUZZY, MEDIUM_FUZZY, LOW_FUZZY, NO_MATCH>>

get_all_categories == Append(get_standard_categories, MT_MATCH)

StandardSet == {get_standard_categories[i] : i \in 1..Len(get_standard_categories)}
AllCategorySet == StandardSet \cup {MT_MATCH}

supports_mt_breakdown(category) == category = EXACT_MATCH

\* from_display_name: the member whose value is the name, else None
from_display_name(name) == IF name \in AllCategorySet THEN Some(name) ELSE NoneV

(***************************************************************************)
(* TradosColumnDetector                                                    *)
(***************************************************************************)
WITH_CHARACTERS == "with_characters"
WITHOUT_CHARACTERS == "without_characters"

\* The substrings the detector looks for, per header word.  "Characters" is
\* looked for as written, the others in the lower-cased header.
WordSubs(w) ==
    CASE w = "File" -> {"file"}
      [] w = "Profile" -> {"file"}
      [] w = "Tagging Errors" -> {"tagging", "error"}
      [] w = "Chars/Word" -> {"chars", "word"}
      [] w = "Words" -> {"word"}
      [] w = "Characters" -> {"Characters"}
      [] OTHER -> {}

HeaderHas(header, key) == \E i \in 1..Len(header) : key \in WordSubs(header[i])

\* [col.strip() for col in line.split(';')]
StripAll(cells) == [i \in 1..Len(cells) |-> Strip(cells[i])]
ColumnHeaders(line) == StripAll(SplitOn(line, ";"))

COLUMN_THRESHOLD == 45
CHARACTERS_THRESHOLD == 6

detect_format_mut(header_lines) ==
    IF Len(header_lines) < 2 THEN WITHOUT_CHARACTERS
    ELSE LET column_headers == ColumnHeaders(header_lines[2])
             total_columns == Len(column_headers)
         IN  IF total_columns >= COLUMN_THRESHOLD THEN WITH_CHARACTERS ELSE WITHOUT_CHARACTERS

detect_format(header_lines) ==
    IF Len(header_lines) < 2 THEN WITHOUT_CHARACTERS
    ELSE LET column_headers == ColumnHeaders(header_lines[2])
             characters_count ==
                 Cardinality({i \in 1..Len(column_headers) :
                                  HeaderHas(column_headers[i], "Characters")})
             total_columns == Len(column_headers)
         IN  IF total_columns >= COLUMN_THRESHOLD \/ characters_count >= CHARACTERS_THRESHOLD
             THEN WITH_CHARACTERS
             ELSE WITHOUT_CHARACTERS

\* part.replace(';', '').strip() of a header-1 part: the name is the word left
CategoryName(part) == Strip(RemoveSym(part, ";"))

RECURSIVE ExtractNames(_)
ExtractNames(parts) ==
    IF parts = <<>> THEN <<>>
    ELSE LET part == Head(parts)
             name == CategoryName(part)
             rest == ExtractNames(Tail(parts))
         IN  IF Strip(part) # <<>> /\ name # <<>> /\ name \notin {<<"Total">>, <<"File">>}
             THEN <<name>> \o rest
             ELSE rest

extract_categories_from_header(header_line) ==
    ExtractNames(SplitFrom(header_line, <<";", ";", ";">>, 1))

\* a name table that also lists the MT Match display name
_map_category_name_to_type_mut(category_name) ==
    IF Len(category_name) = 1 /\ category_name[1] \in AllCategorySet
    THEN Some(category_name[1])
    ELSE NoneV

\* mapping.get(category_name): a name is a text; only a single known word maps
_map_category_name_to_type(category_name) ==
    IF Len(category_name) = 1 /\ category_name[1] \in StandardSet
    THEN Some(category_name[1])
    ELSE NoneV

CategoryFields(format_type) ==
    IF format_type = WITH_CHARACTERS
    THEN <<"segments", "words", "characters", "placeables", "percent">>
    ELSE <<"segments", "words", "placeables", "percent">>

FIXED_SCAN == 5
FIRST_CATEGORY_COLUMN == 3

\* the loop over enumerate(column_headers[:5]); i is the 0-based index
RECURSIVE FixedScan(_, _, _)
FixedScan(column_headers, i, fixed) ==
    IF i >= Min(FIXED_SCAN, Len(column_headers)) THEN fixed
    ELSE LET header == column_headers[i + 1]
             next ==
                 IF HeaderHas(header, "file") THEN ("File" :> i) @@ fixed
                 ELSE IF HeaderHas(header, "tagging") /\ HeaderHas(header, "error")
                      THEN ("Tagging Errors" :> i) @@ fixed
                 ELSE IF HeaderHas(header, "chars") /\ HeaderHas(header, "word")
                      THEN ("Chars/Word" :> i) @@ fixed
                 ELSE fixed
         IN  FixedScan(column_headers, i + 1, next)

EmptyMap == [x \in {} |-> 0]

FixedColumns(column_headers) ==
    LET fixed == FixedScan(column_headers, 0, EmptyMap)
    IN  IF "File" \notin DOMAIN fixed THEN ("File" :> 0) @@ fixed ELSE fixed

\* the inner loop over the fields of one recognized category: a field gets a
\* column only while columns are left
RECURSIVE MapFields(_, _, _, _)
MapFields(fields, col_index, ncols, acc) ==
    IF fields = <<>> THEN [m |-> acc, col |-> col_index]
    ELSE IF col_index < ncols
         THEN MapFields(Tail(fields), col_index + 1, ncols, (Head(fields) :> col_index) @@ acc)
         ELSE MapFields(Tail(fields), col_index, ncols, acc)

\* a loop over category_names in which an unknown name takes no columns
RECURSIVE MapCategories_mut(_, _, _, _, _)
MapCategories_mut(names, format_type, col_index, ncols, cats) ==
    IF names = <<>> THEN [cats |-> cats, col |-> col_index]
    ELSE LET category_type == _map_category_name_to_type(Head(names))
         IN  IF ~IsNone(category_type)
             THEN LET r == MapFields(CategoryFields(format_type), col_index, ncols, EmptyMap)
                  IN  MapCategories_mut(Tail(names), format_type, r.col, ncols,
                                        (Get(category_type) :> r.m) @@ cats)
             ELSE MapCategories_mut(Tail(names), format_type, col_index, ncols, cats)

\* the loop over category_names
RECURSIVE MapCategories(_, _, _, _, _)
MapCategories(names, format_type, col_index, ncols, cats) ==
    IF names = <<>> THEN [cats |-> cats, col |-> col_index]
    ELSE LET category_type == _map_category_name_to_type(Head(names))
         IN  IF ~IsNone(category_type)
             THEN LET r == MapFields(CategoryFields(format_type), col_index, ncols, EmptyMap)
                  IN  MapCategories(Tail(names), format_type, r.col, ncols,
                                    (Get(category_type) :> r.m) @@ cats)
             ELSE MapCategories(Tail(names), format_type,
                                col_index + Len(CategoryFields(format_type)), ncols, cats)

TotalColumns(format_type, col_index, ncols) ==
    LET remaining_cols == ncols - col_index
    IN  IF remaining_cols >= 3
        THEN LET base == ("segments" :> col_index) @@ ("words" :> col_index + 1)
             IN  IF format_type = WITH_CHARACTERS
                 THEN IF remaining_cols >= 4
                      THEN base @@ ("placeables" :> col_index + 2) @@ ("characters" :> col_index + 3)
                      ELSE base
                 ELSE IF remaining_cols >= 4
                      THEN base @@ ("placeables" :> col_index + 2) @@ ("characters" :> col_index + 3)
                      ELSE base @@ ("placeables" :> col_index + 2)
        ELSE EmptyMap

_create_column_mapping(format_type, category_names, column_headers) ==
    LET r == MapCategories(category_names, format_type, FIRST_CATEGORY_COLUMN,
                           Len(column_headers), EmptyMap)
    IN  [format_type |-> format_type,
         categories |-> r.cats,
         fixed_columns |-> FixedColumns(column_headers),
         total_columns |-> TotalColumns(format_type, r.col, Len(column_headers))]

\* map_columns; the caller has checked len(header_lines) >= 2
map_columns(header_lines) ==
    _create_column_mapping(detect_format(header_lines),
                           extract_categories_from_header(header_lines[1]),
                           ColumnHeaders(header_lines[2]))

has_characters_column(mapping) == mapping.format_type = WITH_CHARACTERS

Values(f) == {f[k] : k \in DOMAIN f}

AllIndices(mapping) ==
    Values(mapping.fixed_columns) \cup Values(mapping.total_columns)
        \cup UNION {Values(mapping.categories[c]) : c \in DOMAIN mapping.categories}

validate_mapping_mut(mapping, total_columns) ==
    IF "File" \notin DOMAIN mapping.fixed_columns THEN FALSE
    ELSE IF DOMAIN mapping.categories = {} THEN FALSE
    ELSE ~\E index \in AllIndices(mapping) : index < 0 \/ index > total_columns

validate_mapping(mapping, total_columns) ==
    IF "File" \notin DOMAIN mapping.fixed_columns THEN FALSE
    ELSE IF DOMAIN mapping.categories = {} THEN FALSE
    ELSE ~\E index \in AllIndices(mapping) : index < 0 \/ index >= total_columns

(***************************************************************************)
(* MatchCategoryData, FileAnalysisData                                     *)
(***************************************************************************)
PERCENT_MAX == 100000    \* 100.0 in thousandths

has_tm_mt_breakdown(d) ==
    ~IsNone(d.tm_words) \/ ~IsNone(d.mt_words) \/ ~IsNone(d.nt_words)

ClampOpt(o) == IF IsNone(o) THEN o ELSE Some(Max(0, Get(o)))

\* _validate_tm_mt_breakdown
_validate_tm_mt_breakdown(d) ==
    IF ~supports_mt_breakdown(d.category)
    THEN [d EXCEPT !.tm_words = NoneV, !.mt_words = NoneV, !.nt_words = NoneV]
    ELSE [d EXCEPT !.tm_words = ClampOpt(@), !.mt_words = ClampOpt(@), !.nt_words = ClampOpt(@)]

\* the dataclass constructor followed by __post_init__
MatchCategoryData(category, segments, words, characters, placeables, percent, tm, mt, nt) ==
    LET d == [category |-> category,
              segments |-> Max(0, segments),
              words |-> Max(0, words),
              characters |-> Max(0, characters),
              placeables |-> Max(0, placeables),
              percent |-> Max(0, Min(PERCENT_MAX, percent)),
              tm_words |-> tm, mt_words |-> mt, nt_words |-> nt]
    IN  IF has_tm_mt_breakdown(d) THEN _validate_tm_mt_breakdown(d) ELSE d

EmptyCategoryData(category) ==
    MatchCategoryData(category, 0, 0, 0, 0, 0, NoneV, NoneV, NoneV)

\* get_tm_words with every category counted as all TM
get_tm_words_mut(d, mt_percentage) ==
    IF has_tm_mt_breakdown(d) /\ ~IsNone(d.tm_words) THEN Get(d.tm_words)
    ELSE d.words

\* int(words * pct / 100): the quotient is >= 0 here, so truncation is \div

get_tm_words(d, mt_percentage) ==
    IF has_tm_mt_breakdown(d) /\ ~IsNone(d.tm_words) THEN Get(d.tm_words)
    ELSE IF supports_mt_breakdown(d.category)
         THEN LET tm_percentage == 100 - mt_percentage
              IN  (d.words * tm_percentage) \div 100
         ELSE d.words

\* get_mt_words computing the share whatever is stored
get_mt_words_mut(d, mt_percentage) ==
    IF supports_mt_breakdown(d.category)
    THEN (d.words * mt_percentage) \div 100
    ELSE 0

get_mt_words(d, mt_percentage) ==
    IF has_tm_mt_breakdown(d) /\ ~IsNone(d.mt_words) THEN Get(d.mt_words)
    ELSE IF supports_mt_breakdown(d.category)
         THEN (d.words * mt_percentage) \div 100
         ELSE 0

get_cost_calculation_words(d, mt_percentage) ==
    [tm |-> get_tm_words(d, mt_percentage),
     mt |-> get_mt_words(d, mt_percentage),
     total |-> d.words]

\* FileAnalysisData(...) with no categories given: __post_init__ fills the
\* eight standard categories
NewFileAnalysis(filename, source_language, target_language) ==
    [filename |-> filename,
     source_language |-> source_language,
     target_language |-> target_language,
     categories |-> [c \in StandardSet |-> EmptyCategoryData(c)],
     file_path |-> NoneV,
     cat_tool |-> NoneV]

get_category_data(fa, category) ==
    IF category \in DOMAIN fa.categories THEN fa.categories[category]
    ELSE EmptyCategoryData(category)

\* sum(cat_data.<field> for cat_data in categories.values()); the keys are
\* MatchCategoryType members
FieldOf(f, c, field) == IF c \in DOMAIN f THEN f[c][field] ELSE 0
SumOver(f, field) ==
    FieldOf(f, CONTEXT_MATCH, field) + FieldOf(f, REPETITIONS, field)
        + FieldOf(f, EXACT_MATCH, field) + FieldOf(f, HIGH_FUZZY, field)
        + FieldOf(f, MEDIUM_HIGH_FUZZY, field) + FieldOf(f, MEDIUM_FUZZY, field)
        + FieldOf(f, LOW_FUZZY, field) + FieldOf(f, NO_MATCH, field)
        + FieldOf(f, MT_MATCH, field)

get_total_words(fa) == SumOver(fa.categories, "words")
get_total_segments(fa) == SumOver(fa.categories, "segments")

is_valid_mut(fa) ==
    /\ fa.filename # <<>>
    /\ get_total_words(fa) > 0

is_valid(fa) ==
    /\ fa.filename # <<>>
    /\ fa.source_language # <<>>
    /\ fa.target_language # <<>>
    /\ get_total_words(fa) > 0

(***************************************************************************)
(* Numeric literals: int(text) and float(text)                             *)
(***************************************************************************)
Digits == <<"0", "1", "2", "3", "4", "5", "6", "7", "8", "9">>
IsDigit(c) == \E i \in 1..10 : Digits[i] = c
DigitVal(c) == (CHOOSE i \in 1..10 : Digits[i] = c) - 1
AllDigits(s) == \A i \in 1..Len(s) : IsDigit(s[i])

RECURSIVE Pow10(_)
Pow10(n) == IF n <= 0 THEN 1 ELSE 10 * Pow10(n - 1)

\* the number a string of decimal digits writes
RECURSIVE SumDigits(_, _)
SumDigits(s, i) ==
    IF i > Len(s) THEN 0 ELSE DigitVal(s[i]) * Pow10(Len(s) - i) + SumDigits(s, i + 1)
DigitsValue(s) == SumDigits(s, 1)

HasSign(s) == s # <<>> /\ Head(s) \in {"-", "+"}
Unsigned(s) == IF HasSign(s) THEN Tail(s) ELSE s
SignOf(s) == IF s # <<>> /\ Head(s) = "-" THEN -1 ELSE 1

\* int(text): [sign] digits, anything else is a ValueError (None here)
IntOfBody(sign, body) ==
    IF body # <<>> /\ AllDigits(body) THEN Some(sign * DigitsValue(body)) ELSE NoneV
PyInt(text) == IntOfBody(SignOf(text), Unsigned(text))

FLOAT_MAX_EXP == 308   \* beyond this power of ten a double is inf
FLOAT_SCALE == 1000    \* floats are kept in thousandths

Fin(milli) == [kind |-> "fin", milli |-> milli]

\* float(text): [sign] digits [. digits] [e [sign] digits], or inf / nan.
\* Result: [kind |-> "fin", milli |-> thousandths], [kind |-> "inf" or "nan"]
\* (milli carries the sign there), or None for a ValueError.
FloatValue(sign, mantMilli, e) ==
    IF mantMilli = 0 THEN Fin(0)
    ELSE IF e > FLOAT_MAX_EXP THEN [kind |-> "inf", milli |-> sign]
    ELSE IF e >= 0 THEN Fin(sign * mantMilli * Pow10(e))
    ELSE Fin(sign * (mantMilli \div Pow10(-e)))

\* the mantissa in thousandths, fraction digits beyond the third dropped
MantMilli(ip, fp) ==
    DigitsValue(ip) * FLOAT_SCALE + DigitsValue(SubSeq(fp \o <<"0", "0", "0">>, 1, 3))

ExpValue(ex) == SignOf(ex) * DigitsValue(Unsigned(ex))

FloatOfParts(sign, ip, fp, ex) ==
    IF /\ AllDigits(ip) /\ AllDigits(fp) /\ Len(ip) + Len(fp) > 0
       /\ Unsigned(ex) # <<>> /\ AllDigits(Unsigned(ex))
    THEN Some(FloatValue(sign, MantMilli(ip, fp), ExpValue(ex)))
    ELSE NoneV

FloatOfMantissa(sign, mant, ex) ==
    IF Len(mant) > 2 THEN NoneV
    ELSE FloatOfParts(sign, mant[1], IF Len(mant) = 2 THEN mant[2] ELSE <<>>, ex)

FloatOfExp(sign, byExp) ==
    IF Len(byExp) > 2 THEN NoneV
    ELSE FloatOfMantissa(sign, SplitOn(byExp[1], "."),
                         IF Len(byExp) = 2 THEN byExp[2] ELSE <<"0">>)

FloatOfBody(sign, body) ==
    IF body = <<"i", "n", "f">> THEN Some([kind |-> "inf", milli |-> sign])
    ELSE IF body = <<"n", "a", "n">> THEN Some([kind |-> "nan", milli |-> 0])
    ELSE FloatOfExp(sign, SplitOn(body, "e"))

PyFloat(text) == FloatOfBody(SignOf(text), Unsigned(text))

\* int(x) of a float: truncation towards zero; OverflowError on inf, ValueError on nan
TruncMilli(m) == IF m >= 0 THEN m \div FLOAT_SCALE ELSE -((-m) \div FLOAT_SCALE)

(***************************************************************************)
(* TradosCSVParser                                                         *)
(***************************************************************************)
\* A conversion result: the value, or the exception that escapes it
Ok(v) == [raised |-> FALSE, v |-> v]
Raised == [raised |-> TRUE, v |-> 0]

\* int(float(value)): ValueError is caught, OverflowError is not
IntOfFloat(f) ==
    IF IsNone(f) THEN Ok(0)
    ELSE IF Get(f).kind = "inf" THEN Raised
    ELSE IF Get(f).kind = "nan" THEN Ok(0)
    ELSE Ok(TruncMilli(Get(f).milli))

IntOfInt(n) == IF IsNone(n) THEN Ok(0) ELSE Ok(Get(n))

IntOfValue(value) ==
    IF value = <<>> THEN Ok(0)
    ELSE IF \E i \in 1..Len(value) : value[i] = "." THEN IntOfFloat(PyFloat(value))
    ELSE IntOfInt(PyInt(value))

_safe_int_conversion(row_data, col_index) ==
    IF col_index < 0 \/ col_index >= Len(row_data) THEN Ok(0)
    ELSE IntOfValue(Strip(row_data[col_index + 1]))

FloatOrZero(f) == IF IsNone(f) THEN Fin(0) ELSE Get(f)

FloatOfValue(value) == IF value = <<>> THEN Fin(0) ELSE FloatOrZero(PyFloat(value))

_safe_float_conversion(row_data, col_index) ==
    IF col_index < 0 \/ col_index >= Len(row_data) THEN Fin(0)
    ELSE FloatOfValue(Strip(row_data[col_index + 1]))

\* max(0.0, min(100.0, percent)) of __post_init__, on a float
ClampPercent(f) ==
    IF f.kind = "nan" THEN PERCENT_MAX
    ELSE IF f.kind = "inf" THEN (IF f.milli > 0 THEN PERCENT_MAX ELSE 0)
    ELSE Max(0, Min(PERCENT_MAX, f.milli))

FieldColumn(category_mapping, field) ==
    IF field \in DOMAIN category_mapping THEN category_mapping[field] ELSE -1

IntFields == {"segments", "words", "placeables", "characters"}

\* the MatchCategoryData built from the converted cells; an exception raised
\* by a conversion escapes
CategoryOfCells(ints, percent, has_characters) ==
    IF \/ ints["segments"].raised \/ ints["words"].raised \/ ints["placeables"].raised
       \/ (has_characters /\ ints["characters"].raised)
    THEN Raised
    ELSE Ok(MatchCategoryData(NO_MATCH, ints["segments"].v, ints["words"].v,
                              IF has_characters THEN ints["characters"].v ELSE 0,
                              ints["placeables"].v, ClampPercent(percent),
                              NoneV, NoneV, NoneV))

_parse_category_data(row_data, category_mapping, has_characters) ==
    CategoryOfCells(
        [f \in IntFields |-> _safe_int_conversion(row_data, FieldColumn(category_mapping, f))],
        _safe_float_conversion(row_data, FieldColumn(category_mapping, "percent")),
        has_characters)

CellStrip == {" ", "\""}
UNKNOWN_FILE == <<"u", "n", "k", "n", "o", "w", "n", "_", "f", "i", "l", "e">>
PIPE == <<" ", "|", " ">>

LANG_MIN == 2
LANG_MAX == 5

NoLangs == [source |-> <<>>, target |-> <<>>]

HasSym(s, c) == \E i \in 1..Len(s) : s[i] = c

\* the body of the loop over the patterns of parse_language_pair_from_filename,
\* from the innermost test outwards
LangsOfPair(source, target) ==
    IF /\ LANG_MIN <= Len(source) /\ Len(source) <= LANG_MAX
       /\ LANG_MIN <= Len(target) /\ Len(target) <= LANG_MAX
    THEN [source |-> source, target |-> target]
    ELSE NoLangs

LangsOfSplit(langs) ==
    IF Len(langs) = 2 THEN LangsOfPair(Lower(Strip(langs[1])), Lower(Strip(langs[2])))
    ELSE NoLangs

LangsOfPart(lang_part) ==
    IF HasSym(lang_part, ">") THEN LangsOfSplit(SplitOn(lang_part, ">")) ELSE NoLangs

LangsOfParts(parts) ==
    IF Len(parts) >= 2 THEN LangsOfPart(parts[Len(parts)]) ELSE NoLangs

LangsOfPattern(filename, pattern) ==
    IF ContainsSeq(filename, pattern) THEN LangsOfParts(SplitFrom(filename, pattern, 1))
    ELSE NoLangs

FilenamePatterns == <<PIPE, <<"_">>, <<"-">>, <<" ">>>>

\* the first pattern that yields a pair returns it
FirstLangs(found) ==
    IF \A i \in 1..Len(found) : found[i] = NoLangs THEN NoLangs
    ELSE found[CHOOSE i \in 1..Len(found) :
                   found[i] # NoLangs /\ \A j \in 1..(i - 1) : found[j] = NoLangs]

parse_language_pair_from_filename(filename) ==
    FirstLangs([i \in 1..Len(FilenamePatterns) |->
                   LangsOfPattern(filename, FilenamePatterns[i])])

\* _extract_file_info, from the file cell on
LangsOfLangParts(lang_parts) ==
    IF Len(lang_parts) = 2
    THEN [source |-> Strip(lang_parts[1]), target |-> Strip(lang_parts[2])]
    ELSE NoLangs

LangsOfCellParts(hasPipe, parts) ==
    IF hasPipe /\ Len(parts) > 1 /\ HasSym(parts[2], ">")
    THEN LangsOfLangParts(SplitOn(Strip(parts[2]), ">"))
    ELSE NoLangs

FileInfo(filename, langs, fallback) ==
    IF /\ langs.source = <<>> \/ langs.target = <<>>
       /\ fallback.source # <<>> /\ fallback.target # <<>>
    THEN [filename |-> filename, source_language |-> fallback.source,
          target_language |-> fallback.target]
    ELSE [filename |-> filename, source_language |-> langs.source,
          target_language |-> langs.target]

InfoOfName(filename, langs) ==
    FileInfo(filename, langs, parse_language_pair_from_filename(filename))

InfoOfParts(hasPipe, parts) ==
    InfoOfName(IF hasPipe THEN Strip(parts[1]) ELSE parts[1], LangsOfCellParts(hasPipe, parts))

InfoOfCell(file_cell) ==
    InfoOfParts(ContainsSeq(file_cell, PIPE),
                IF ContainsSeq(file_cell, PIPE) THEN SplitFrom(file_cell, PIPE, 1)
                ELSE <<file_cell>>)

FileColumn(mapping) ==
    IF "File" \in DOMAIN mapping.fixed_columns THEN mapping.fixed_columns["File"] ELSE 0

FileCell(row_data, file_col_index) ==
    IF file_col_index < Len(row_data)
    THEN StripChars(row_data[file_col_index + 1], CellStrip)
    ELSE UNKNOWN_FILE

_extract_file_info(row_data, mapping) == InfoOfCell(FileCell(row_data, FileColumn(mapping)))

StripCells(cells, chars) == [i \in 1..Len(cells) |-> StripChars(cells[i], chars)]

\* [col.strip(' "') for col in row.split(';')]
RowData(row) == StripCells(SplitOn(row, ";"), CellStrip)

\* the loop over column_mapping.categories.items(): every category parsed
\* from the row ...
ParsedCategories(row_data, mapping) ==
    [c \in DOMAIN mapping.categories |->
        _parse_category_data(row_data, mapping.categories[c], has_characters_column(mapping))]

\* ... and stored with set_category_data, which stamps the key on the value;
\* an exception raised by a conversion ends the loop
StoreCategories(fa, parsed) ==
    IF \E c \in DOMAIN parsed : parsed[c].raised THEN Raised
    ELSE Ok([fa EXCEPT !.categories =
                [c \in (DOMAIN fa.categories) \cup (DOMAIN parsed) |->
                    IF c \in DOMAIN parsed THEN [parsed[c].v EXCEPT !.category = c]
                    ELSE fa.categories[c]]])

AnalysisOfInfo(file_info) ==
    NewFileAnalysis(file_info.filename, file_info.source_language, file_info.target_language)

\* the extraction of one row shared by _parse_data_rows and
\* parse_multiple_files: file info, FileAnalysisData, categories
ExtractRow(row_data, mapping) ==
    StoreCategories(AnalysisOfInfo(_extract_file_info(row_data, mapping)),
                    ParsedCategories(row_data, mapping))

MIN_LINES == 3
MIN_ROW_CELLS == 3

StripLines(lines) == [i \in 1..Len(lines) |-> Strip(lines[i])]

Stamp(fa) == [fa EXCEPT !.cat_tool = Some("Trados"), !.file_path = Some("file_path")]

\* What a parser call returned.  none: the call returned None; single: the
\* FileAnalysisData of parse; files: the list of parse_multiple_files;
\* rows: the 1-based data rows that produced the returned analyses.
ParseResult(op, none, single, files, rows) ==
    [op |-> op, none |-> none, single |-> single, files |-> files, rows |-> rows]

ParseNone(op) == ParseResult(op, TRUE, NoneV, <<>>, <<>>)

\* an extracted row is kept when no conversion raised and is_valid() holds
RowResult(r) == IF r.raised THEN NoneV ELSE IF ~is_valid(r.v) THEN NoneV ELSE Some(r.v)

\* _parse_data_rows from the split first row on; the exception handler of
\* parse turns an escaping exception into None
ParseFirstRow(row_data, mapping) ==
    IF ~validate_mapping(mapping, Len(row_data)) THEN NoneV
    ELSE RowResult(ExtractRow(row_data, mapping))

_parse_data_rows(data_rows, mapping) ==
    IF data_rows = <<>> THEN NoneV ELSE ParseFirstRow(RowData(data_rows[1]), mapping)

ParseOutcome(analysis_data) ==
    IF IsNone(analysis_data) THEN ParseNone("parse")
    ELSE ParseResult("parse", FALSE, Some(Stamp(Get(analysis_data))), <<>>, <<1>>)

ParseLines(lines) ==
    IF Len(lines) < MIN_LINES THEN ParseNone("parse")
    ELSE ParseOutcome(_parse_data_rows(SubSeq(lines, 3, Len(lines)),
                                       map_columns(SubSeq(lines, 1, 2))))

parse(file_lines) == ParseLines(StripLines(file_lines))

\* one pass of the row loop of parse_multiple_files
RowOutcome(row_data, mapping) ==
    IF Len(row_data) < MIN_ROW_CELLS THEN NoneV
    ELSE RowResult(ExtractRow(row_data, mapping))

RowOutcomes(data_rows, mapping) ==
    [i \in 1..Len(data_rows) |-> RowOutcome(RowData(data_rows[i]), mapping)]

KeptRows(outcomes) ==
    SelectSeq([i \in 1..Len(outcomes) |-> i], LAMBDA i : ~IsNone(outcomes[i]))

FileAnalyses(outcomes, kept) ==
    IF kept = <<>> THEN ParseNone("parse_multiple_files")
    ELSE ParseResult("parse_multiple_files", FALSE, NoneV,
                     [j \in 1..Len(kept) |-> Stamp(Get(outcomes[kept[j]]))], kept)

CollectRows(outcomes) == FileAnalyses(outcomes, KeptRows(outcomes))

MultiLines(lines) ==
    IF Len(lines) < MIN_LINES THEN ParseNone("parse_multiple_files")
    ELSE CollectRows(RowOutcomes(SubSeq(lines, 3, Len(lines)),
                                 map_columns(SubSeq(lines, 1, 2))))

parse_multiple_files(file_lines) == MultiLines(StripLines(file_lines))

(***************************************************************************)
(* Reports: the lines of a Trados CSV export, built cell by cell           *)
(***************************************************************************)
SEMI == <<";">>

Repeat(x, n) == [i \in 1..n |-> x]

\* header line 1: ";;;" then every category name followed by `sep` semicolons,
\* then "Total"
HeaderLine1(names, sep) ==
    <<";", ";", ";">>
        \o FlattenSeq([i \in 1..Len(names) |-> <<names[i]>> \o Repeat(";", sep)])
        \o <<"Total">>

FixedHeaders(variant) ==
    IF variant = "standard" THEN <<<<"File">>, <<"Tagging Errors">>, <<"Chars/Word">>>>
    ELSE IF variant = "spaced" THEN <<<<" ", "File", " ">>, <<"Tagging Errors">>, <<"Chars/Word">>>>
    ELSE IF variant = "shifted" THEN <<<<"Name">>, <<"Profile">>, <<"Chars/Word">>>>
    ELSE <<<<"Name">>, <<"Errors">>, <<"Ratio">>>>

BlockHeaders(width) ==
    IF width = 5
    THEN <<<<"Segments">>, <<"Words">>, <<"Characters">>, <<"Placeables">>, <<"Percent">>>>
    ELSE IF width = 4
    THEN <<<<"Segments">>, <<"Words">>, <<"Placeables">>, <<"Percent">>>>
    ELSE Repeat(<<"Characters">>, width)

TailHeaders(tail) ==
    SubSeq(<<<<"Segments">>, <<"Words">>, <<"Placeables">>, <<"Characters">>, <<"Percent">>>>,
           1, tail)

\* header line 2: three fixed columns, nb blocks of `width` columns, the
\* first `tail` columns of the Total section
HeaderLine2(variant, nb, width, tail) ==
    JoinSeq(FixedHeaders(variant) \o FlattenSeq(Repeat(BlockHeaders(width), nb))
                \o TailHeaders(tail),
            SEMI)

StandardNames(k) == SubSeq(get_standard_categories, 1, k)

\* a header pair from its shape: h.names category names in line 1 separated
\* by h.sep semicolons; line 2 as HeaderLine2
HeaderPair(h) ==
    <<HeaderLine1(h.names, h.sep), HeaderLine2(h.variant, h.nb, h.width, h.tail)>>

\* cells of a data row
C_EMPTY == <<>>
C_ABC == <<"a", "b", "c">>
C_0 == <<"0">>
C_1 == <<"1">>
C_12 == <<"1", "2">>
C_12_7 == <<"1", "2", ".", "7">>
C_NEG == <<"-", "5">>
C_HUGE == <<"1", ".", "0", "e", "4", "0", "0">>
C_QUOTED == <<"\"", "7", "\"">>

F_OK == <<"a", " ", "|", " ", "e", "n", ">", "d", "e">>
F_NOLANG == <<"a">>
F_HALF == <<"a", " ", "|", " ", "e", "n", ">">>
F_FALLBACK == <<"a", "_", "E", "N", ">", "d", "e">>
F_EMPTY == <<>>

\* the cells of one category block whose Words cell is w
BlockCells(width, w) ==
    IF width = 5 THEN <<C_1, w, C_12, C_0, C_12_7>>
    ELSE IF width = 4 THEN <<C_1, w, C_0, C_12_7>>
    ELSE Repeat(w, width)

\* a data row for header shape h: file cell r.file, words cell r.w in every
\* block, cut to its first r.cut cells when r.cut > 0
DataRow(h, r) ==
    LET cells == <<r.file, C_0, C_12_7>>
                     \o FlattenSeq(Repeat(BlockCells(h.width, r.w), h.nb))
                     \o Repeat(C_12, h.tail)
        kept == IF r.cut > 0 THEN SubSeq(cells, 1, Min(r.cut, Len(cells))) ELSE cells
    IN  JoinSeq(kept, SEMI)

MkReport(h, rows) == HeaderPair(h) \o [i \in 1..Len(rows) |-> DataRow(h, rows[i])]

RECURSIVE SeqsUpTo(_, _)
SeqsUpTo(S, n) ==
    IF n <= 0 THEN {<<>>}
    ELSE LET shorter == SeqsUpTo(S, n - 1)
         IN  shorter \cup {Append(q, x) : q \in shorter, x \in S}

(***************************************************************************)
(* Idle values of the state each specification leaves alone                *)
(***************************************************************************)
IdleParse == ParseResult("idle", TRUE, NoneV, <<>>, <<>>)
EmptyMapping ==
    [format_type |-> WITHOUT_CHARACTERS, categories |-> EmptyMap,
     fixed_columns |-> EmptyMap, total_columns |-> EmptyMap]
IdleMapIn == [header_lines |-> <<>>, mapping |-> EmptyMapping, total_columns |-> 0]
IdleMapOut == [op |-> "idle", format_type |-> WITHOUT_CHARACTERS, valid |-> FALSE]
IdleCostIn == [op |-> "idle"]
IdleCostOut == [op |-> "idle"]
IdleCall == [op |-> "idle"]

RateIdle == rateTable = <<>> /\ rateQuery = NoneV /\ rateResult = NoneV /\ languagePairs = <<>>
CostIdle == costIn = IdleCostIn /\ costOut = IdleCostOut
ParseIdle == report = <<>> /\ parseOut = IdleParse
MapIdle == mapIn = IdleMapIn /\ mapOut = IdleMapOut
CallIdle == callIn = IdleCall /\ callOut = IdleCall

rateVars == <<rateTable, rateQuery, rateResult, languagePairs>>
costVars == <<costIn, costOut>>
parseVars == <<report, parseOut>>
mapVars == <<mapIn, mapOut>>
callVars == <<callIn, callOut>>

(***************************************************************************)
(* SpecMap: the column detector on header pairs and on mappings            *)
(***************************************************************************)
MaxBlocks == 11      \* category blocks in header line 2
MaxTail == 4         \* columns of the Total section in header line 2
MaxTotal == 1        \* total_columns tried besides the header's own width

MapShapes ==
    {[names |-> StandardNames(k), sep |-> w, variant |-> "standard",
      nb |-> nb, width |-> w, tail |-> t] :
        k \in {0, 2, 8}, w \in {4, 5}, nb \in {0, 1, 5, 6, 8, 10, MaxBlocks},
        t \in 0..MaxTail}
    \cup
    {[names |-> n, sep |-> s, variant |-> v, nb |-> 2, width |-> 4, tail |-> 3] :
        n \in {<<"MT Match", CONTEXT_MATCH>>, <<CONTEXT_MATCH, "Fuzzy", NO_MATCH>>,
               <<CONTEXT_MATCH, CONTEXT_MATCH>>, <<"File", REPETITIONS>>},
        s \in {2, 3, 4, 6},
        v \in {"standard", "spaced", "shifted", "none"}}
    \cup
    {[names |-> StandardNames(k), sep |-> 6, variant |-> "standard",
      nb |-> nb, width |-> 6, tail |-> 0] : k \in {1, 2}, nb \in {0, 1}}

MapHeaderInputs ==
    {HeaderPair(h) : h \in MapShapes}
        \cup {<<>>, <<HeaderLine1(StandardNames(8), 5)>>}

\* ColumnMapping objects built directly, as the dataclass allows
DirectMappings ==
    {[format_type |-> f, categories |-> c, fixed_columns |-> x, total_columns |-> t] :
        f \in {WITH_CHARACTERS, WITHOUT_CHARACTERS},
        c \in {EmptyMap,
               (CONTEXT_MATCH :> EmptyMap),
               (CONTEXT_MATCH :> (("segments" :> 3) @@ ("words" :> 4))),
               (NO_MATCH :> (("segments" :> 3) @@ ("words" :> -1)))},
        x \in {EmptyMap, ("File" :> 0), ("File" :> 2) @@ ("Chars/Word" :> 5),
               ("Tagging Errors" :> 1), ("File" :> -1)},
        t \in {EmptyMap, ("segments" :> 5) @@ ("words" :> 6)}}

ColumnCount(header_lines) ==
    IF Len(header_lines) < 2 THEN 0 ELSE Len(ColumnHeaders(header_lines[2]))

MapInputs ==
    {[header_lines |-> h, mapping |-> EmptyMapping, total_columns |-> n] :
        h \in MapHeaderInputs, n \in 0..MaxTotal}
    \cup {[header_lines |-> h, mapping |-> EmptyMapping, total_columns |-> ColumnCount(h) + d] :
        h \in MapHeaderInputs, d \in {-1, 0}}
    \cup {[header_lines |-> <<>>, mapping |-> m, total_columns |-> n] :
        m \in DirectMappings, n \in (0..MaxTotal) \cup {5, 7}}

MapInit == mapIn \in MapInputs /\ mapOut = IdleMapOut /\ RateIdle /\ CostIdle /\ ParseIdle /\ CallIdle

DetectFormat ==
    /\ mapOut' = [op |-> "detect_format", format_type |-> detect_format(mapIn.header_lines),
                  valid |-> FALSE]
    /\ UNCHANGED <<mapIn, rateVars, costVars, parseVars, callVars>>

MapColumns ==
    /\ Len(mapIn.header_lines) >= 2
    /\ LET m == map_columns(mapIn.header_lines)
       IN  /\ mapIn' = [mapIn EXCEPT !.mapping = m]
           /\ mapOut' = [op |-> "map_columns", format_type |-> m.format_type, valid |-> FALSE]
    /\ UNCHANGED <<rateVars, costVars, parseVars, callVars>>

ValidateMapping ==
    /\ mapOut' = [op |-> "validate_mapping", format_type |-> mapIn.mapping.format_type,
                  valid |-> validate_mapping(mapIn.mapping, mapIn.total_columns)]
    /\ UNCHANGED <<mapIn, rateVars, costVars, parseVars, callVars>>

MapNext == DetectFormat \/ MapColumns \/ ValidateMapping

SpecMap == MapInit /\ [][MapNext]_vars

(***************************************************************************)
(* Properties of the column detector, stated on the header text itself     *)
(***************************************************************************)

\* the number of semicolon-separated columns of a line
SemicolonColumns(line) == Cardinality({i \in 1..Len(line) : line[i] = ";"}) + 1

\* the columns of a line whose header contains 'Characters', by column number
CharactersColumns(line) ==
    {Cardinality({j \in 1..i : line[j] = ";"}) :
        i \in {k \in 1..Len(line) : line[k] = "Characters"}}

IsHeaderPair == Len(mapIn.header_lines) >= 2

\* C6: detect_format answers 'with_characters' exactly when header line 2 has
\* at least 45 semicolon-separated columns or at least 6 column headers
\* containing 'Characters', answers 'without_characters' otherwise, and
\* always answers one of the two.
C6_DetectFormatThresholds ==
    mapOut.op = "detect_format" =>
        /\ mapOut.format_type \in {WITH_CHARACTERS, WITHOUT_CHARACTERS}
        /\ IsHeaderPair =>
              (mapOut.format_type = WITH_CHARACTERS
                 <=> \/ SemicolonColumns(mapIn.header_lines[2]) >= 45
                     \/ Cardinality(CharactersColumns(mapIn.header_lines[2])) >= 6)

\* a narrow header pair classified with_characters on its 'Characters' headers alone
C6_Witness ==
    /\ mapOut.op = "detect_format"
    /\ IsHeaderPair
    /\ mapOut.format_type = WITH_CHARACTERS
    /\ SemicolonColumns(mapIn.header_lines[2]) < 45
    /\ Cardinality(CharactersColumns(mapIn.header_lines[2])) = 6

\* the mapping in mapIn was produced by map_columns from the header pair in mapIn
MappedFromHeader == IsHeaderPair /\ mapIn.mapping # EmptyMapping

WithCharactersFields == {"segments", "words", "characters", "placeables", "percent"}

\* C7: a header pair classified with_characters whose mapping validate_mapping
\* accepts (for the header's own column count) has all five fields, 'characters'
\* among them, in every category entry; a header pair classified
\* without_characters has 'characters' in no category entry.
C7_CharactersInEveryCategory ==
    LET m == mapIn.mapping
    IN  /\ (/\ MappedFromHeader
            /\ mapOut.op = "validate_mapping"
            /\ mapOut.valid
            /\ mapIn.total_columns = SemicolonColumns(mapIn.header_lines[2])
            /\ m.format_type = WITH_CHARACTERS)
           => \A c \in DOMAIN m.categories : WithCharactersFields \subseteq DOMAIN m.categories[c]
        /\ (MappedFromHeader /\ m.format_type = WITHOUT_CHARACTERS)
           => \A c \in DOMAIN m.categories : "characters" \notin DOMAIN m.categories[c]

InRange(f, total_columns) == \A k \in DOMAIN f : 0 <= f[k] /\ f[k] < total_columns

\* C8: validate_mapping answers true exactly when the mapping has a 'File'
\* fixed column, maps at least one category, and every index in
\* fixed_columns, total_columns and each category entry is in
\* [0, total_columns); it answers false otherwise.
C8_ValidateMappingIff ==
    LET m == mapIn.mapping
    IN  mapOut.op = "validate_mapping" =>
            (mapOut.valid
               <=> /\ "File" \in DOMAIN m.fixed_columns
                   /\ DOMAIN m.categories # {}
                   /\ InRange(m.fixed_columns, mapIn.total_columns)
                   /\ InRange(m.total_columns, mapIn.total_columns)
                   /\ \A c \in DOMAIN m.categories :
                          InRange(m.categories[c], mapIn.total_columns))

\* an accepted mapping whose last category column is the last column of the row
C8_Witness ==
    /\ mapOut.op = "validate_mapping"
    /\ mapOut.valid
    /\ \E c \in DOMAIN mapIn.mapping.categories :
           \E k \in DOMAIN mapIn.mapping.categories[c] :
               mapIn.mapping.categories[c][k] = mapIn.total_columns - 1

(***************************************************************************)
(* SpecParse: TradosCSVParser.parse and parse_multiple_files on reports    *)
(***************************************************************************)
MaxRows == 2         \* data rows of a report

Shape(k, sep, variant, nb, width, tail) ==
    [names |-> StandardNames(k), sep |-> sep, variant |-> variant,
     nb |-> nb, width |-> width, tail |-> tail]

ParseShapes ==
    {Shape(8, 5, "standard", 8, 5, 4),    \* the full with_characters layout
     Shape(8, 5, "standard", 6, 5, 0),    \* eight names over six blocks
     Shape(2, 4, "standard", 2, 4, 3),    \* a small without_characters layout
     Shape(2, 4, "shifted", 2, 4, 3),     \* the File column found at index 1
     Shape(2, 4, "none", 2, 4, 0),        \* no fixed header recognized
     Shape(0, 4, "standard", 2, 4, 3)}    \* no category name in line 1

FileCells == {F_OK, F_NOLANG, F_HALF, F_FALLBACK, F_EMPTY}
WordCells == {C_EMPTY, C_ABC, C_0, C_12, C_12_7, C_NEG, C_HUGE, C_QUOTED}
RowCuts == {0, 2, 5}

RowKinds == {[file |-> f, w |-> w, cut |-> c] : f \in FileCells, w \in WordCells, c \in RowCuts}

\* the rows that follow one another in a report of several rows
CommonRows ==
    {[file |-> F_OK, w |-> C_12, cut |-> 0],
     [file |-> F_NOLANG, w |-> C_12, cut |-> 0],
     [file |-> F_OK, w |-> C_HUGE, cut |-> 0],
     [file |-> F_OK, w |-> C_12, cut |-> 5]}

RowLists == SeqsUpTo(CommonRows, MaxRows) \cup {<<r>> : r \in RowKinds}

Reports ==
    {MkReport(h, rows) : h \in ParseShapes, rows \in RowLists}
        \cup {<<>>, <<HeaderLine1(StandardNames(8), 5)>>}

ParseInit == report \in Reports /\ parseOut = IdleParse /\ RateIdle /\ CostIdle /\ MapIdle /\ CallIdle

Parse ==
    /\ parseOut' = parse(report)
    /\ UNCHANGED <<report, rateVars, costVars, mapVars, callVars>>

ParseMultipleFiles ==
    /\ parseOut' = parse_multiple_files(report)
    /\ UNCHANGED <<report, rateVars, costVars, mapVars, callVars>>

ParseNext == Parse \/ ParseMultipleFiles

SpecParse == ParseInit /\ [][ParseNext]_vars

(***************************************************************************)
(* Properties of the parser, stated on the report and the returned value   *)
(***************************************************************************)
ParserActed == parseOut.op \in {"parse", "parse_multiple_files"}
HasDataRows == Len(report) >= MIN_LINES

ReportLines == StripLines(report)
ReportMapping == map_columns(SubSeq(ReportLines, 1, 2))
DataRowCount == Len(report) - 2
DataRowCells(i) == RowData(ReportLines[i + 2])

\* the data rows the call looks at: parse reads the first, parse_multiple_files all
RowsRead == IF parseOut.op = "parse" THEN {1} ELSE 1..DataRowCount

\* data row i produced a FileAnalysisData in the returned value
Yielded(i) ==
    IF parseOut.op = "parse" THEN i = 1 /\ ~parseOut.none
    ELSE \E j \in 1..Len(parseOut.rows) : parseOut.rows[j] = i

\* the extracted filename, source and target language are non-empty and the
\* words over all categories are positive
UsableExtract(r) ==
    /\ ~r.raised
    /\ r.v.filename # <<>>
    /\ r.v.source_language # <<>>
    /\ r.v.target_language # <<>>
    /\ get_total_words(r.v) > 0

Usable(i) == UsableExtract(ExtractRow(DataRowCells(i), ReportMapping))

MappingValidFor(i) == validate_mapping(ReportMapping, Len(DataRowCells(i)))

\* C9: on both parsing paths, a data row is extracted into a FileAnalysisData
\* only with a column mapping that validate_mapping accepts for that row.
C9_NoExtractionWithInvalidMapping ==
    (ParserActed /\ HasDataRows) =>
        \A i \in RowsRead : Yielded(i) => MappingValidFor(i)

MappingValidForRows == \A i \in 1..DataRowCount : MappingValidFor(i)
SomeRowUsable == \E i \in 1..DataRowCount : Usable(i)

\* C11: an unusable data row is skipped and never fatal to the file: whenever
\* the data rows of a report hold at least one usable row (and the header's
\* column mapping is accepted for the rows), parse and parse_multiple_files
\* return analysis data rather than None, wherever the unusable rows stand.
C11_UnusableRowIsSkipped ==
    (ParserActed /\ HasDataRows /\ MappingValidForRows /\ SomeRowUsable)
        => ~parseOut.none

(***************************************************************************)
(* Money and rates                                                         *)
(***************************************************************************)
\* Decimal amounts are integers in units of 0.00001 EUR
MONEY_SCALE == 100000
QUANTUM_RATE == MONEY_SCALE \div 10000    \* Decimal('0.0001')
QUANTUM_CENT == MONEY_SCALE \div 100      \* Decimal('0.01')

\* Decimal.quantize under the default context (ROUND_HALF_EVEN), v >= 0
RoundHalfEven(q, twice, step) ==
    IF twice < step THEN q
    ELSE IF twice > step THEN q + 1
    ELSE IF q % 2 = 0 THEN q ELSE q + 1
quantize(v, step) == step * RoundHalfEven(v \div step, 2 * (v % step), step)

\* Rate(...) followed by __post_init__
Rate(id, translator_id, client_id, language_pair_id, match_category_id, rate_per_word, minimum_fee, is_minimum_fee_enabled, created_at) ==
    [id |-> id,
     translator_id |-> translator_id,
     client_id |-> client_id,
     language_pair_id |-> language_pair_id,
     match_category_id |-> match_category_id,
     rate_per_word |-> quantize(Max(0, rate_per_word), QUANTUM_RATE),
     minimum_fee |-> quantize(Max(0, minimum_fee), QUANTUM_CENT),
     is_minimum_fee_enabled |-> is_minimum_fee_enabled,
     created_at |-> created_at]

\* Rate.calculate_cost
FeeOrCost(base_cost, rate) ==
    IF rate.is_minimum_fee_enabled /\ rate.minimum_fee > base_cost
    THEN rate.minimum_fee
    ELSE quantize(base_cost, QUANTUM_CENT)
calculate_cost(rate, word_count) == FeeOrCost(word_count * rate.rate_per_word, rate)

Applicable(rate, translator_id, language_pair_id, match_category_id) ==
    /\ rate.translator_id = translator_id
    /\ rate.language_pair_id = language_pair_id
    /\ rate.match_category_id = match_category_id

\* `if client_id:` is false for None and for 0
Truthy(client_id) == ~IsNone(client_id) /\ Get(client_id) # 0

FirstOrNone(s) == IF s = <<>> THEN NoneV ELSE Some(s[1])

GeneralRate(applicable_rates) ==
    FirstOrNone(SelectSeq(applicable_rates, LAMBDA r : IsNone(r.client_id)))

ClientOrGeneral(client_rates, applicable_rates) ==
    IF client_rates # <<>> THEN Some(client_rates[1]) ELSE GeneralRate(applicable_rates)

ResolveApplicable(applicable_rates, client_id) ==
    IF applicable_rates = <<>> THEN NoneV
    ELSE IF Truthy(client_id)
         THEN ClientOrGeneral(SelectSeq(applicable_rates, LAMBDA r : r.client_id = client_id),
                              applicable_rates)
         ELSE GeneralRate(applicable_rates)

\* the hierarchy applied to the whole list, without the filter
resolve_rate_hierarchy_unfiltered(rates, translator_id, language_pair_id, match_category_id, client_id) ==
    ResolveApplicable(rates, client_id)

\* the hierarchy with the client priority dropped
resolve_rate_hierarchy_mut(rates, translator_id, language_pair_id, match_category_id, client_id) ==
    FirstOrNone(SelectSeq(rates, LAMBDA r :
        Applicable(r, translator_id, language_pair_id, match_category_id)))

\* RateCalculator.resolve_rate_hierarchy
resolve_rate_hierarchy(rates, translator_id, language_pair_id, match_category_id, client_id) ==
    ResolveApplicable(
        SelectSeq(rates, LAMBDA r :
            Applicable(r, translator_id, language_pair_id, match_category_id)),
        client_id)

\* ORDER BY CASE WHEN client_id IS NOT NULL THEN 1 ELSE 2 END, created_at DESC
OrderClass(rate) == IF IsNone(rate.client_id) THEN 2 ELSE 1
MayPrecede(a, b) ==
    \/ OrderClass(a) < OrderClass(b)
    \/ OrderClass(a) = OrderClass(b) /\ a.created_at >= b.created_at

RowOrders(n) == {p \in [1..n -> 1..n] : \A i, j \in 1..n : p[i] = p[j] => i = j}
Permuted(rows, p) == [i \in 1..Len(rows) |-> rows[p[i]]]
IsOrdered(rows) == \A i, j \in 1..Len(rows) : i < j => MayPrecede(rows[i], rows[j])

\* the row orders the SELECT may deliver: rows that tie on the sort key
\* come in an order SQL leaves open
OrdersOf(rows) ==
    {s \in {Permuted(rows, p) : p \in RowOrders(Len(rows))} : IsOrdered(s)}
SelectRates(table, translator_id, language_pair_id, match_category_id) ==
    OrdersOf(SelectSeq(table, LAMBDA r :
        Applicable(r, translator_id, language_pair_id, match_category_id)))

\* RateRepository.find_rate_for_project on one delivered row order
find_rate_for_project(rows, translator_id, language_pair_id, match_category_id, client_id) ==
    resolve_rate_hierarchy(rows, translator_id, language_pair_id, match_category_id, client_id)

(***************************************************************************)
(* SpecRate: the rate hierarchy over a table of rates                      *)
(***************************************************************************)
MaxRates == 3

\* the database ids the rows and the queries use
Ids == [translator |-> 1, other_translator |-> 2, language_pair |-> 1]
TRANSLATOR == Ids.translator
OTHER_TRANSLATOR == Ids.other_translator
LANGUAGE_PAIR == Ids.language_pair

\* language_pairs holding the pair the rates are stored for, en>de
StoredPairs ==
    <<[id |-> LANGUAGE_PAIR, source_language |-> <<"e", "n">>,
       target_language |-> <<"d", "e">>]>>
ClientIds == {1, 2}
CreatedAts == {1, 2}

RateRowKinds == [translator_id : {TRANSLATOR, OTHER_TRANSLATOR},
             client_id : {NoneV} \cup {Some(c) : c \in ClientIds},
             created_at : CreatedAts]

\* the row a kind stands for, stored at position i: ids follow insertion
\* order and the rate per word tells the rows apart
RowOf(k, i) ==
    [id |-> Some(i),
     translator_id |-> k.translator_id,
     client_id |-> k.client_id,
     language_pair_id |-> LANGUAGE_PAIR,
     match_category_id |-> 3,
     rate_per_word |-> i * QUANTUM_CENT,
     minimum_fee |-> 0,
     is_minimum_fee_enabled |-> FALSE,
     created_at |-> k.created_at]
TableOf(kinds) == [i \in 1..Len(kinds) |-> RowOf(kinds[i], i)]
RateTables == {TableOf(ks) : ks \in SeqsUpTo(RateRowKinds, MaxRates)}

\* client 0 is "no client" to the code, client 3 has no row
RateQueries ==
    [translator_id : {TRANSLATOR}, language_pair_id : {LANGUAGE_PAIR},
     match_category_id : {3},
     client_id : {NoneV, Some(0), Some(3)} \cup {Some(c) : c \in ClientIds}]

RateInit ==
    /\ rateTable \in RateTables
    /\ rateQuery \in RateQueries
    /\ rateResult = NoneV
    /\ languagePairs = StoredPairs
    /\ CostIdle /\ ParseIdle /\ MapIdle /\ CallIdle

\* RateCalculator.resolve_rate_hierarchy(rates, ...) on the rows as stored
ResolveRateHierarchy ==
    /\ rateResult' = [op |-> "resolve_rate_hierarchy",
                      rate |-> resolve_rate_hierarchy(rateTable,
                                   rateQuery.translator_id, rateQuery.language_pair_id,
                                   rateQuery.match_category_id, rateQuery.client_id)]
    /\ UNCHANGED <<rateTable, rateQuery, languagePairs, costVars, parseVars, mapVars, callVars>>

\* RateRepository.find_rate_for_project
FindRateForProject ==
    /\ \E rows \in SelectRates(rateTable, rateQuery.translator_id,
                               rateQuery.language_pair_id, rateQuery.match_category_id) :
           rateResult' = [op |-> "find_rate_for_project",
                          rate |-> find_rate_for_project(rows,
                                       rateQuery.translator_id, rateQuery.language_pair_id,
                                       rateQuery.match_category_id, rateQuery.client_id)]
    /\ UNCHANGED <<rateTable, rateQuery, languagePairs, costVars, parseVars, mapVars, callVars>>

RateNext == ResolveRateHierarchy \/ FindRateForProject
SpecRate == RateInit /\ [][RateNext]_vars

\* the rows of the table for the queried (translator, pair, category)
MatchingRows ==
    {i \in 1..Len(rateTable) :
        Applicable(rateTable[i], rateQuery.translator_id,
                   rateQuery.language_pair_id, rateQuery.match_category_id)}
GeneralRows == {i \in MatchingRows : IsNone(rateTable[i].client_id)}
RequestedClientRows ==
    {i \in MatchingRows : ~IsNone(rateQuery.client_id)
                          /\ rateTable[i].client_id = rateQuery.client_id}
Resolved(rows) == \E i \in rows : rateResult.rate = Some(rateTable[i])
RateResolved == ~IsNone(rateResult)

\* C1: among the rates of the queried (translator, pair, category), with
\* one rate of the requested client and one general rate the lookup
\* returns the client's rate; with client_id None, or with a client that
\* has no rate, it returns the one general rate; and with neither a rate
\* of the requested client nor a general rate it returns None.
C1_RateHierarchy ==
    RateResolved =>
        /\ (Cardinality(RequestedClientRows) = 1 /\ Cardinality(GeneralRows) = 1)
               => Resolved(RequestedClientRows)
        /\ (IsNone(rateQuery.client_id) /\ Cardinality(GeneralRows) = 1)
               => Resolved(GeneralRows)
        /\ (RequestedClientRows = {} /\ Cardinality(GeneralRows) = 1)
               => Resolved(GeneralRows)
        /\ (RequestedClientRows = {} /\ GeneralRows = {})
               => IsNone(rateResult.rate)

\* a lookup for a client that has a rate stored after the general rate
C1_Witness ==
    /\ RateResolved
    /\ rateResult.op = "find_rate_for_project"
    /\ \E i \in RequestedClientRows : \E g \in GeneralRows :
           g < i /\ rateResult.rate = Some(rateTable[i])
    /\ Cardinality(RequestedClientRows) = 1
    /\ Cardinality(GeneralRows) = 1

(***************************************************************************)
(* SpecSplit: the TM/MT split of one category's words                      *)
(***************************************************************************)
MaxWords == 12

Percentages == 0..100
\* tm_words / mt_words as the constructor may be given them
ExplicitWords == {NoneV, Some(0), Some(3), Some(MaxWords + 1)}

SplitInputs ==
    {[data |-> MatchCategoryData(c, 1, w, 0, 0, 0, tm, mt, NoneV), mt_percentage |-> p] :
        c \in {EXACT_MATCH, NO_MATCH}, w \in 0..MaxWords,
        tm \in ExplicitWords, mt \in ExplicitWords, p \in Percentages}

SplitInit ==
    /\ costIn \in SplitInputs
    /\ costOut = IdleCostOut
    /\ RateIdle /\ ParseIdle /\ MapIdle /\ CallIdle

GetTmWords ==
    /\ costOut' = [op |-> "get_tm_words",
                   value |-> get_tm_words(costIn.data, costIn.mt_percentage)]
    /\ UNCHANGED <<costIn, rateVars, parseVars, mapVars, callVars>>

GetMtWords ==
    /\ costOut' = [op |-> "get_mt_words",
                   value |-> get_mt_words(costIn.data, costIn.mt_percentage)]
    /\ UNCHANGED <<costIn, rateVars, parseVars, mapVars, callVars>>

GetCostCalculationWords ==
    /\ costOut' = [op |-> "get_cost_calculation_words",
                   value |-> get_cost_calculation_words(costIn.data, costIn.mt_percentage)]
    /\ UNCHANGED <<costIn, rateVars, parseVars, mapVars, callVars>>

SplitNext == GetTmWords \/ GetMtWords \/ GetCostCalculationWords
SpecSplit == SplitInit /\ [][SplitNext]_vars

IsExactMatchData == costIn.data.category = EXACT_MATCH
SplitDone == costOut.op = "get_cost_calculation_words"
NoExplicitSplit == IsNone(costIn.data.tm_words) /\ IsNone(costIn.data.mt_words)

SplitBounded ==
    /\ costOut.value.tm + costOut.value.mt <= costIn.data.words
    /\ costIn.mt_percentage = 0 => costOut.value.mt = 0
    /\ costIn.mt_percentage = 100 => costOut.value.tm = 0
SplitEnds ==
    /\ (costOut.op = "get_mt_words" /\ costIn.mt_percentage = 0) => costOut.value = 0
    /\ (costOut.op = "get_tm_words" /\ costIn.mt_percentage = 100) => costOut.value = 0

\* C5 as stated: for every 100% category data, every mt_percentage in
\* 0..100 and every words >= 0, TM words + MT words <= words, the MT count
\* is 0 at mt_percentage 0 and the TM count is 0 at mt_percentage 100.
C5_SplitNeverExceedsWords ==
    IsExactMatchData =>
        /\ SplitDone => SplitBounded
        /\ SplitEnds

\* C5, amended: the same for 100% category data constructed without
\* explicit tm_words and mt_words (explicit counts are returned verbatim).
C5_ComputedSplitNeverExceedsWords ==
    (IsExactMatchData /\ NoExplicitSplit) =>
        /\ SplitDone => SplitBounded
        /\ SplitEnds

\* a computed split that loses a word to truncation
C5_Witness ==
    /\ IsExactMatchData /\ NoExplicitSplit
    /\ SplitDone
    /\ costOut.value.tm > 0 /\ costOut.value.mt > 0
    /\ costOut.value.tm + costOut.value.mt < costIn.data.words

(***************************************************************************)
(* CalculationService and RateCalculator: cost breakdowns                  *)
(***************************************************************************)
\* Settings.DEFAULT_RATES, and get_default_rate's 0.12 for a missing key
DEFAULT_RATES ==
    (CONTEXT_MATCH :> 3000) @@ (REPETITIONS :> 3000) @@ (EXACT_MATCH :> 5000)
        @@ (HIGH_FUZZY :> 8000) @@ (MEDIUM_HIGH_FUZZY :> 10000)
        @@ (MEDIUM_FUZZY :> 11000) @@ (LOW_FUZZY :> 12000) @@ (NO_MATCH :> 12000)
        @@ (MT_MATCH :> 2000)
get_default_rate(category) ==
    IF category \in DOMAIN DEFAULT_RATES THEN DEFAULT_RATES[category] ELSE 12000

\* match_categories after ensure_default_categories on an empty table
get_category_mapping ==
    [name \in AllCategorySet |->
        CHOOSE i \in 1..Len(get_all_categories) : get_all_categories[i] = name]

\* datetime.now() of a Rate built during a calculation: later than any row
NOW == 1 + Len(get_all_categories)

\* LanguagePairRepository.get_or_create: the pair is found or created when
\* both codes are non-empty and differ after strip().lower()
ValidPair(source, target) == source # <<>> /\ target # <<>> /\ source # target
get_or_create(source_lang, target_lang) ==
    IF ValidPair(Lower(Strip(source_lang)), Lower(Strip(target_lang)))
    THEN Some(LANGUAGE_PAIR) ELSE NoneV

\* the one order of a SELECT whose rows do not tie on the sort key
TheOrder(orders) == CHOOSE rows \in orders : TRUE

\* the placeholder built at rate 0 instead of the default rate
RateOrDefault_mut(found, translator_id, language_pair_id, category) ==
    IF ~IsNone(found) THEN Get(found)
    ELSE Rate(NoneV, translator_id, NoneV, language_pair_id,
              get_category_mapping[category], 0, 0, FALSE, NOW)

RateOrDefault(found, translator_id, language_pair_id, category) ==
    IF ~IsNone(found) THEN Get(found)
    ELSE Rate(NoneV, translator_id, NoneV, language_pair_id,
              get_category_mapping[category], get_default_rate(category), 0, FALSE, NOW)

\* CalculationService._get_rates_for_calculation
_get_rates_for_calculation(table, translator_id, language_pair_id, client_id) ==
    [category \in {n \in DOMAIN get_category_mapping : ~IsNone(from_display_name(n))} |->
        RateOrDefault(
            find_rate_for_project(
                TheOrder(SelectRates(table, translator_id, language_pair_id,
                                     get_category_mapping[category])),
                translator_id, language_pair_id, get_category_mapping[category], client_id),
            translator_id, language_pair_id, category)]

\* rates.get(MatchCategoryType.MT_MATCH, rate).rate_per_word
mt_rate_mut(rates, rate) == rate.rate_per_word
mt_rate(rates, rate) ==
    IF MT_MATCH \in DOMAIN rates THEN rates[MT_MATCH].rate_per_word ELSE rate.rate_per_word

\* the two shapes of a category_costs entry; a float holds the decimal
\* amount it was converted from
SplitEntry(data, word_breakdown, tm_rate, mt_rate_value) ==
    [total_words |-> data.words,
     tm_words |-> word_breakdown.tm,
     mt_words |-> word_breakdown.mt,
     tm_rate |-> tm_rate,
     mt_rate |-> mt_rate_value,
     tm_cost |-> word_breakdown.tm * tm_rate,
     mt_cost |-> word_breakdown.mt * mt_rate_value,
     total_cost |-> word_breakdown.tm * tm_rate + word_breakdown.mt * mt_rate_value,
     segments |-> data.segments,
     percent |-> data.percent]

StandardEntry(data, rate) ==
    [words |-> data.words,
     rate |-> rate.rate_per_word,
     cost |-> data.words * rate.rate_per_word,
     segments |-> data.segments,
     percent |-> data.percent]

EntryOfSplit(data, word_breakdown, rate, rates) ==
    IF word_breakdown.mt > 0
    THEN SplitEntry(data, word_breakdown, rate.rate_per_word, mt_rate(rates, rate))
    ELSE StandardEntry(data, rate)

CategoryEntry(category, data, rates, mt_percentage) ==
    IF supports_mt_breakdown(category)
    THEN EntryOfSplit(data, get_cost_calculation_words(data, mt_percentage),
                      rates[category], rates)
    ELSE StandardEntry(data, rates[category])

EntryCost(entry) == IF "total_cost" \in DOMAIN entry THEN entry.total_cost ELSE entry.cost
CostAt(category_costs, category) ==
    IF category \in DOMAIN category_costs THEN EntryCost(category_costs[category]) ELSE 0
Subtotal(category_costs) ==
    CostAt(category_costs, CONTEXT_MATCH) + CostAt(category_costs, REPETITIONS)
        + CostAt(category_costs, EXACT_MATCH) + CostAt(category_costs, HIGH_FUZZY)
        + CostAt(category_costs, MEDIUM_HIGH_FUZZY) + CostAt(category_costs, MEDIUM_FUZZY)
        + CostAt(category_costs, LOW_FUZZY) + CostAt(category_costs, NO_MATCH)
        + CostAt(category_costs, MT_MATCH)

CostBreakdown(category_costs, subtotal, total_words, total_segments, mt_percentage) ==
    [category_costs |-> category_costs,
     subtotal |-> subtotal,
     minimum_fee |-> 0,
     total_cost |-> subtotal,
     minimum_fee_applied |-> FALSE,
     total_words |-> total_words,
     total_segments |-> total_segments,
     mt_percentage |-> mt_percentage]

BreakdownOf(category_costs, analysis, mt_percentage) ==
    CostBreakdown(category_costs, Subtotal(category_costs),
                  get_total_words(analysis), get_total_segments(analysis), mt_percentage)

\* CalculationService._calculate_breakdown
_calculate_breakdown(analysis, rates, mt_percentage) ==
    BreakdownOf(
        [category \in {c \in DOMAIN analysis.categories :
                           analysis.categories[c].words > 0 /\ c \in DOMAIN rates} |->
            CategoryEntry(category, analysis.categories[category], rates, mt_percentage)],
        analysis, mt_percentage)

\* sum of one field of a category over the files of a project
FieldOfFiles(files, category, field) ==
    SumSeq([i \in 1..Len(files) |-> get_category_data(files[i], category)[field]])
OptOfFiles(files, category, field) ==
    SumSeq([i \in 1..Len(files) |->
        IF IsNone(get_category_data(files[i], category)[field]) THEN 0
        ELSE Get(get_category_data(files[i], category)[field])])
HasBreakdown(files, category) ==
    \E i \in 1..Len(files) : has_tm_mt_breakdown(get_category_data(files[i], category))
ProjectTotalWords(files) == SumSeq([i \in 1..Len(files) |-> get_total_words(files[i])])

\* total_words / project_total_words * 100, kept to the thousandth
PercentOf(total_words, project_total_words) ==
    IF project_total_words > 0
    THEN (total_words * 100 * FLOAT_SCALE) \div project_total_words
    ELSE 0

\* the counts are assigned after construction: nothing re-validates them
WithBreakdown(data, has_breakdown, tm, mt, nt) ==
    IF has_breakdown
    THEN [data EXCEPT !.tm_words = Some(tm), !.mt_words = Some(mt), !.nt_words = Some(nt)]
    ELSE data

\* get_aggregated_categories carrying a breakdown only when every file has one
get_aggregated_categories_mut(files) ==
    [category \in StandardSet |->
        WithBreakdown(
            MatchCategoryData(category,
                FieldOfFiles(files, category, "segments"),
                FieldOfFiles(files, category, "words"),
                FieldOfFiles(files, category, "characters"),
                FieldOfFiles(files, category, "placeables"),
                PercentOf(FieldOfFiles(files, category, "words"), ProjectTotalWords(files)),
                NoneV, NoneV, NoneV),
            \A i \in 1..Len(files) :
                has_tm_mt_breakdown(get_category_data(files[i], category)),
            OptOfFiles(files, category, "tm_words"),
            OptOfFiles(files, category, "mt_words"),
            OptOfFiles(files, category, "nt_words"))]

\* ProjectAnalysisData.get_aggregated_categories
get_aggregated_categories(files) ==
    [category \in StandardSet |->
        WithBreakdown(
            MatchCategoryData(category,
                FieldOfFiles(files, category, "segments"),
                FieldOfFiles(files, category, "words"),
                FieldOfFiles(files, category, "characters"),
                FieldOfFiles(files, category, "placeables"),
                PercentOf(FieldOfFiles(files, category, "words"), ProjectTotalWords(files)),
                NoneV, NoneV, NoneV),
            HasBreakdown(files, category),
            OptOfFiles(files, category, "tm_words"),
            OptOfFiles(files, category, "mt_words"),
            OptOfFiles(files, category, "nt_words"))]

AGGREGATED == <<"(", "A", "g", "g", "r", "e", "g", "a", "t", "e", "d", ")">>
EMPTY_PROJECT == <<"E", "m", "p", "t", "y", " ", "P", "r", "o", "j", "e", "c", "t">>

WithCategories(analysis, categories) == [analysis EXCEPT !.categories = categories]

\* CalculationService._aggregate_project_analysis
_aggregate_project_analysis(project_analysis) ==
    IF project_analysis.files = <<>>
    THEN NewFileAnalysis(EMPTY_PROJECT, <<>>, <<>>)
    ELSE WithCategories(
             NewFileAnalysis(project_analysis.project_name \o <<" ">> \o AGGREGATED,
                             project_analysis.files[1].source_language,
                             project_analysis.files[1].target_language),
             get_aggregated_categories(project_analysis.files))

\* Project.has_analysis_data
has_analysis_data(project) ==
    ~IsNone(project.analysis_data) /\ Len(Get(project.analysis_data).files) > 0

\* CalculationService._get_project_minimum_fee
_get_project_minimum_fee(translator_id, client_id) == NoneV

ApplyProjectFee(breakdown, project_minimum_fee) ==
    IF ~IsNone(project_minimum_fee) /\ Get(project_minimum_fee) # 0
           /\ Get(project_minimum_fee) > breakdown.total_cost
    THEN [breakdown EXCEPT !.minimum_fee = Get(project_minimum_fee),
                           !.total_cost = Get(project_minimum_fee),
                           !.minimum_fee_applied = TRUE]
    ELSE breakdown

ProjectCostWithRates(project, rates) ==
    IF DOMAIN rates = {} THEN NoneV
    ELSE Some(ApplyProjectFee(
             _calculate_breakdown(_aggregate_project_analysis(Get(project.analysis_data)),
                                  rates, project.mt_percentage),
             _get_project_minimum_fee(project.translator_id, project.client_id)))

ProjectCostForPair(project, table, language_pair) ==
    IF IsNone(language_pair) THEN NoneV
    ELSE ProjectCostWithRates(project,
             _get_rates_for_calculation(table, project.translator_id,
                                        Get(language_pair), project.client_id))

\* CalculationService.calculate_project_cost; table is translator_rates
calculate_project_cost(project, table) ==
    IF ~has_analysis_data(project) THEN NoneV
    ELSE ProjectCostForPair(project, table,
             get_or_create(project.source_language, project.target_language))

\* RateCalculator.calculate_project_cost
RateCalculatorEntry(rate, word_count) ==
    [words |-> word_count, rate |-> rate.rate_per_word, cost |-> calculate_cost(rate, word_count)]

FeeIsSet(minimum_fee) == ~IsNone(minimum_fee) /\ Get(minimum_fee) # 0

Calculation(categories, subtotal, minimum_fee) ==
    [categories |-> categories,
     subtotal |-> subtotal,
     minimum_fee |-> IF FeeIsSet(minimum_fee) THEN Get(minimum_fee) ELSE 0,
     total |-> IF FeeIsSet(minimum_fee) /\ Get(minimum_fee) > subtotal
               THEN Get(minimum_fee) ELSE subtotal,
     minimum_fee_applied |-> FeeIsSet(minimum_fee) /\ Get(minimum_fee) > subtotal]

CalculationOf(categories, minimum_fee) ==
    Calculation(categories, Subtotal(categories), minimum_fee)

RateCalculator_calculate_project_cost(rates, word_counts, minimum_fee) ==
    CalculationOf(
        [category \in {c \in DOMAIN word_counts : word_counts[c] > 0 /\ c \in DOMAIN rates} |->
            RateCalculatorEntry(rates[category], word_counts[category])],
        minimum_fee)

(***************************************************************************)
(* SpecCost: cost breakdowns of a project under a set of rates             *)
(***************************************************************************)
MaxFiles == 2

EUR == MONEY_SCALE
EN == <<"e", "n">>
DE == <<"d", "e">>
PROJECT_NAME == <<"p">>

\* the words of a file: 100%, 95% - 99% and No Match, the rest empty; with
\* explicit, the 100% data carries tm_words and mt_words
WordProfiles ==
    [exact : {0, 15, 100}, fuzzy : {0, 7}, nomatch : {0, 400, 600}, explicit : BOOLEAN]
PairedProfiles ==
    {[exact |-> 15, fuzzy |-> 7, nomatch |-> 0, explicit |-> FALSE],
     [exact |-> 100, fuzzy |-> 0, nomatch |-> 400, explicit |-> TRUE]}

ProfileWords(p, category) ==
    IF category = EXACT_MATCH THEN p.exact
    ELSE IF category = HIGH_FUZZY THEN p.fuzzy
    ELSE IF category = NO_MATCH THEN p.nomatch
    ELSE 0
ExplicitOf(p, n) == IF p.explicit THEN Some(n) ELSE NoneV

FileOfProfile(p) ==
    WithCategories(
        NewFileAnalysis(F_NOLANG, EN, DE),
        [category \in StandardSet |->
            MatchCategoryData(category, 1, ProfileWords(p, category), 0, 0, 0,
                              ExplicitOf(p, 2), ExplicitOf(p, 1), NoneV)])

FileLists ==
    {<<>>} \cup {<<FileOfProfile(p)>> : p \in WordProfiles}
        \cup {[i \in 1..Len(ps) |-> FileOfProfile(ps[i])] :
                 ps \in SeqsUpTo(PairedProfiles, MaxFiles) \ SeqsUpTo(PairedProfiles, 1)}

\* the rates of one translator: the 100% rate, an optional MT Match rate,
\* 0.10 for the rest (95% - 99% left out when partial), and the minimum
\* fee every rate carries
RateSpecs ==
    [exact : {5000, 12345}, mt : {NoneV, Some(2000)}, partial : BOOLEAN,
     fee : {0, 50 * EUR}, enabled : BOOLEAN]

RatedCategories(spec) ==
    SelectSeq(get_all_categories, LAMBDA c :
        /\ c = MT_MATCH => ~IsNone(spec.mt)
        /\ c = HIGH_FUZZY => ~spec.partial)
SpecRateValue(spec, category) ==
    IF category = EXACT_MATCH THEN spec.exact
    ELSE IF category = MT_MATCH THEN Get(spec.mt)
    ELSE 10000

\* a stored row: _row_to_model assigns the columns to a default Rate, so
\* the amounts are the stored ones
RowOfSpec(spec, category, i) ==
    [id |-> Some(i),
     translator_id |-> TRANSLATOR,
     client_id |-> NoneV,
     language_pair_id |-> LANGUAGE_PAIR,
     match_category_id |-> get_category_mapping[category],
     rate_per_word |-> SpecRateValue(spec, category),
     minimum_fee |-> spec.fee,
     is_minimum_fee_enabled |-> spec.enabled,
     created_at |-> i]
RowsOfSpec(spec, categories) ==
    [i \in 1..Len(categories) |-> RowOfSpec(spec, categories[i], i)]
TableOfSpec(spec) == RowsOfSpec(spec, RatedCategories(spec))

\* the same rates as a dict of Rate objects built by the caller
RateOfSpec(spec, category) ==
    Rate(NoneV, TRANSLATOR, NoneV, LANGUAGE_PAIR, get_category_mapping[category],
         SpecRateValue(spec, category), spec.fee, spec.enabled, NOW)
RatesOver(spec, categories) ==
    [category \in {categories[i] : i \in 1..Len(categories)} |-> RateOfSpec(spec, category)]
RatesOfSpec(spec) == RatesOver(spec, RatedCategories(spec))

Project(files, source_language, target_language, mt_percentage) ==
    [name |-> PROJECT_NAME,
     translator_id |-> TRANSLATOR,
     client_id |-> NoneV,
     source_language |-> source_language,
     target_language |-> target_language,
     mt_percentage |-> Max(0, Min(100, mt_percentage)),
     analysis_data |-> Some([project_name |-> PROJECT_NAME, files |-> files])]

CostInput(spec, files, target_language, mt_percentage) ==
    [project |-> Project(files, EN, target_language, mt_percentage),
     rates |-> RatesOfSpec(spec),
     minimum_fee |-> IF spec.enabled THEN Some(spec.fee) ELSE NoneV]

MtPercentages == {0, 50, 70, 100}

CostInit ==
    /\ \E spec \in RateSpecs :
           /\ rateTable = TableOfSpec(spec)
           /\ costIn \in {CostInput(spec, files, target, p) :
                              files \in FileLists, target \in {DE, EN}, p \in MtPercentages}
    /\ rateQuery = NoneV /\ rateResult = NoneV
    /\ languagePairs = StoredPairs
    /\ costOut = IdleCostOut
    /\ ParseIdle /\ MapIdle /\ CallIdle

ProjectFiles == Get(costIn.project.analysis_data).files
WordCounts(analysis) == [c \in DOMAIN analysis.categories |-> analysis.categories[c].words]

\* CalculationService._calculate_breakdown on the project's first file
CalculateBreakdown ==
    /\ has_analysis_data(costIn.project)
    /\ costOut' = [op |-> "_calculate_breakdown",
                   result |-> Some(_calculate_breakdown(ProjectFiles[1], costIn.rates,
                                                        costIn.project.mt_percentage))]
    /\ UNCHANGED <<costIn, rateVars, parseVars, mapVars, callVars>>

\* CalculationService.calculate_project_cost
CalculateProjectCost ==
    /\ costOut' = [op |-> "calculate_project_cost",
                   result |-> calculate_project_cost(costIn.project, rateTable)]
    /\ UNCHANGED <<costIn, rateVars, parseVars, mapVars, callVars>>

\* RateCalculator.calculate_project_cost on the first file's word counts
RateCalculatorProjectCost ==
    /\ has_analysis_data(costIn.project)
    /\ costOut' = [op |-> "RateCalculator.calculate_project_cost",
                   result |-> Some(RateCalculator_calculate_project_cost(
                                       costIn.rates, WordCounts(ProjectFiles[1]),
                                       costIn.minimum_fee))]
    /\ UNCHANGED <<costIn, rateVars, parseVars, mapVars, callVars>>

CostNext == CalculateBreakdown \/ CalculateProjectCost \/ RateCalculatorProjectCost
SpecCost == CostInit /\ [][CostNext]_vars

(***************************************************************************)
(* Cost properties                                                         *)
(***************************************************************************)
BreakdownDone == costOut.op = "_calculate_breakdown"
ServiceCosted == costOut.op = "calculate_project_cost" /\ ~IsNone(costOut.result)
CalculatorCosted == costOut.op = "RateCalculator.calculate_project_cost"
CostResult == Get(costOut.result)

\* the minimum fee the rates of the calculation are configured with
FeeEnabled == ~IsNone(costIn.minimum_fee)
ConfiguredFee == Get(costIn.minimum_fee)

FeeIsFloor(subtotal, total, applied) ==
    IF FeeEnabled /\ ConfiguredFee > subtotal
    THEN total = ConfiguredFee /\ applied
    ELSE total = subtotal /\ ~applied

\* words x rate per category, in cents, with no fee inside
PlainCosts(word_counts, rates) ==
    [c \in {k \in DOMAIN word_counts : word_counts[k] > 0 /\ k \in DOMAIN rates} |->
        [cost |-> quantize(word_counts[c] * rates[c].rate_per_word, QUANTUM_CENT)]]

\* C2: with a minimum fee configured (enabled) and strictly greater than
\* the subtotal, total = minimum fee and minimum_fee_applied = true;
\* otherwise total = subtotal and the flag is false; the fee acts once, on
\* the summed subtotal of the per-category costs.
C2_MinimumFeeFloor ==
    /\ ServiceCosted =>
           FeeIsFloor(CostResult.subtotal, CostResult.total_cost,
                      CostResult.minimum_fee_applied)
    /\ CalculatorCosted =>
           /\ CostResult.subtotal
                  = Subtotal(PlainCosts(WordCounts(ProjectFiles[1]), costIn.rates))
           /\ FeeIsFloor(CostResult.subtotal, CostResult.total,
                         CostResult.minimum_fee_applied)

CostedCategories(analysis, rates) ==
    {c \in DOMAIN analysis.categories : analysis.categories[c].words > 0 /\ c \in DOMAIN rates}

MtRateOrOwn(rates, category) ==
    IF MT_MATCH \in DOMAIN rates THEN rates[MT_MATCH].rate_per_word
    ELSE rates[category].rate_per_word

SplitYieldsMt(data, mt_percentage) ==
    data.category = EXACT_MATCH /\ get_mt_words(data, mt_percentage) > 0

ExpectedCost(data, rates, mt_percentage) ==
    IF SplitYieldsMt(data, mt_percentage)
    THEN get_tm_words(data, mt_percentage) * rates[data.category].rate_per_word
             + get_mt_words(data, mt_percentage) * MtRateOrOwn(rates, data.category)
    ELSE data.words * rates[data.category].rate_per_word

IsScenario(data, rates, mt_percentage) ==
    /\ data.words = 100 /\ ~has_tm_mt_breakdown(data) /\ mt_percentage = 70
    /\ EXACT_MATCH \in DOMAIN rates /\ rates[EXACT_MATCH].rate_per_word = 5000
    /\ MT_MATCH \in DOMAIN rates /\ rates[MT_MATCH].rate_per_word = 2000

BreakdownCosts(analysis, rates, mt_percentage, category_costs) ==
    /\ DOMAIN category_costs = CostedCategories(analysis, rates)
    /\ \A c \in CostedCategories(analysis, rates) :
           /\ EntryCost(category_costs[c])
                  = ExpectedCost(analysis.categories[c], rates, mt_percentage)
           /\ ("total_cost" \in DOMAIN category_costs[c])
                  <=> SplitYieldsMt(analysis.categories[c], mt_percentage)
    /\ IsScenario(analysis.categories[EXACT_MATCH], rates, mt_percentage)
           => /\ category_costs[EXACT_MATCH].tm_words = 30
              /\ category_costs[EXACT_MATCH].mt_words = 70
              /\ category_costs[EXACT_MATCH].total_cost = 290 * QUANTUM_CENT

\* C3: in a cost breakdown the 100% category with words > 0 whose split
\* yields mt > 0 costs tm_words x tm_rate + mt_words x mt_rate, mt_rate
\* being the MT Match rate or, without one, the 100% rate; every other
\* category with words > 0, and the 100% category when mt = 0, costs
\* words x rate_per_word; 100 words at mt_percentage 70 with rates 0.05
\* and 0.02 give tm 30, mt 70 and cost 2.90.
C3_BreakdownCost ==
    BreakdownDone =>
        BreakdownCosts(ProjectFiles[1], costIn.rates, costIn.project.mt_percentage,
                       CostResult.category_costs)

\* the scenario of C3 has been costed
C3_Witness ==
    /\ BreakdownDone
    /\ IsScenario(ProjectFiles[1].categories[EXACT_MATCH], costIn.rates,
                  costIn.project.mt_percentage)
    /\ CostResult.category_costs[EXACT_MATCH].total_cost = 290 * QUANTUM_CENT

(***************************************************************************)
(* SpecPipeline: a report is parsed and the parsed file is costed          *)
(***************************************************************************)
MaxWordVectors == 6

\* str(n) for 0 <= n < 1000
DigitSym(d) == Digits[d + 1]
IntText(n) ==
    IF n < 10 THEN <<DigitSym(n)>>
    ELSE IF n < 100 THEN <<DigitSym(n \div 10), DigitSym(n % 10)>>
    ELSE <<DigitSym(n \div 100), DigitSym((n \div 10) % 10), DigitSym(n % 10)>>

\* a data row whose category blocks hold the given word counts
RowOfWords(h, file, words) ==
    JoinSeq(<<file, C_0, C_12_7>>
                \o FlattenSeq([i \in 1..h.nb |-> BlockCells(h.width, IntText(words[i]))])
                \o Repeat(C_12, h.tail),
            SEMI)
ReportOfWords(h, file, words) == HeaderPair(h) \o <<RowOfWords(h, file, words)>>

FULL_WITH_CHARACTERS == Shape(8, 5, "standard", 8, 5, 4)
FULL_WITHOUT_CHARACTERS == Shape(8, 4, "standard", 8, 4, 3)

\* words per category, in category order
WordVector(k) ==
    IF k = 1 THEN <<5, 10, 15, 20, 25, 30, 35, 40>>
    ELSE IF k = 2 THEN <<0, 0, 100, 0, 0, 0, 0, 0>>
    ELSE IF k = 3 THEN <<10, 10, 10, 10, 10, 10, 10, 10>>
    ELSE IF k = 4 THEN <<0, 0, 0, 0, 0, 0, 0, 0>>
    ELSE [i \in 1..8 |-> (k * i) % 17]
WordVectors == {WordVector(k) : k \in 1..MaxWordVectors}

PipelineReports ==
    {ReportOfWords(h, f, w) :
        h \in {FULL_WITH_CHARACTERS, FULL_WITHOUT_CHARACTERS},
        f \in {F_OK, F_FALLBACK}, w \in WordVectors}

\* translator_rates with one general row of the same rate per category
FlatRow(category, rate, i) ==
    [id |-> Some(i),
     translator_id |-> TRANSLATOR,
     client_id |-> NoneV,
     language_pair_id |-> LANGUAGE_PAIR,
     match_category_id |-> get_category_mapping[category],
     rate_per_word |-> rate,
     minimum_fee |-> 0,
     is_minimum_fee_enabled |-> FALSE,
     created_at |-> i]
FlatTable(rate, categories) ==
    [i \in 1..Len(categories) |-> FlatRow(categories[i], rate, i)]
FLAT_RATE == 10 * QUANTUM_CENT
PipelineTables ==
    {<<>>, FlatTable(FLAT_RATE, get_all_categories),
     FlatTable(FLAT_RATE, get_standard_categories)}

PipelineInit ==
    /\ report \in PipelineReports
    /\ rateTable \in PipelineTables
    /\ costIn \in {[op |-> "project", mt_percentage |-> p] : p \in MtPercentages}
    /\ parseOut = IdleParse
    /\ costOut = IdleCostOut
    /\ rateQuery = NoneV /\ rateResult = NoneV
    /\ languagePairs = StoredPairs
    /\ MapIdle /\ CallIdle

\* TradosCSVParser.parse on the report
ImportReport ==
    /\ parseOut = IdleParse
    /\ parseOut' = parse(report)
    /\ UNCHANGED <<report, rateVars, costVars, mapVars, callVars>>

ImportedProject(file, mt_percentage) ==
    Project(<<file>>, file.source_language, file.target_language, mt_percentage)

\* the parsed file becomes the analysis data of a project in the file's
\* languages, and CalculationService.calculate_project_cost costs it
CalculateImported ==
    /\ parseOut.op = "parse" /\ ~parseOut.none
    /\ costOut = IdleCostOut
    /\ costOut' = [op |-> "calculate_project_cost",
                   result |-> calculate_project_cost(
                                  ImportedProject(Get(parseOut.single), costIn.mt_percentage),
                                  rateTable)]
    /\ UNCHANGED <<costIn, rateVars, parseVars, mapVars, callVars>>

PipelineNext == ImportReport \/ CalculateImported
SpecPipeline == PipelineInit /\ [][PipelineNext]_vars

IsEndToEndScenario ==
    /\ report = ReportOfWords(FULL_WITH_CHARACTERS, F_OK, WordVector(1))
    /\ rateTable = FlatTable(FLAT_RATE, get_all_categories)
    /\ costIn.mt_percentage = 70

\* C4: the report with two header rows and one data row in the
\* with_characters layout, words 5, 10, 15, 20, 25, 30, 35, 40 in category
\* order, costed at a flat 0.10 per word for every category under the
\* default mt_percentage 70, gives subtotal 18.00 (180 words x 0.10).
C4_EndToEndSubtotal ==
    (IsEndToEndScenario /\ parseOut.op = "parse")
        => /\ ~parseOut.none
           /\ costOut.op = "calculate_project_cost"
                  => /\ ~IsNone(costOut.result)
                     /\ Get(costOut.result).subtotal = 18 * EUR

\* the table holds no rate of the project's translator and language pair
NoStoredRate ==
    \A i \in 1..Len(rateTable) :
        \/ rateTable[i].translator_id # TRANSLATOR
        \/ rateTable[i].language_pair_id # LANGUAGE_PAIR

\* C16: when the rate table holds no rate at all for the requested translator
\* and language pair, a cost calculation is fatal: it returns no breakdown.
C16_NoRatesIsFatal ==
    (costOut.op = "calculate_project_cost" /\ NoStoredRate) => IsNone(costOut.result)

(***************************************************************************)
(* SpecConvert: the safe conversions of the parser on single cells         *)
(***************************************************************************)
MaxCells == 2

C_BLANK == <<" ">>
C_12_0 == <<"1", "2", ".", "0">>
C_PADDED == <<" ", "1", "2", " ">>
C_NEG_FRACTION == <<"-", "5", ".", "9">>
C_EXP == <<"1", ".", "5", "e", "2">>
C_HUGE_NO_DOT == <<"1", "e", "4", "0", "0">>
C_INF == <<"i", "n", "f">>
C_NAN == <<"n", "a", "n">>
C_DOT_NAN == <<".", "n", "a", "n">>
C_TWO_DOTS == <<"1", ".", "2", ".", "3">>

ConvertCells ==
    {C_EMPTY, C_BLANK, C_ABC, C_0, C_12, C_12_0, C_12_7, C_PADDED, C_NEG, C_NEG_FRACTION,
     C_EXP, C_HUGE, C_HUGE_NO_DOT, C_INF, C_NAN, C_DOT_NAN, C_TWO_DOTS, C_QUOTED}

\* rows of 1..MaxCells cells with the cell under test in any position
RowsAround(cell, n) == {[i \in 1..n |-> IF i = k THEN cell ELSE C_0] : k \in 1..n}
ConvertRows == UNION {RowsAround(cell, n) : cell \in ConvertCells, n \in 1..MaxCells}

ConvertInputs ==
    {[op |-> "convert", row_data |-> row, col_index |-> i] :
        row \in ConvertRows, i \in -1..MaxCells}

ConvertInit ==
    /\ callIn \in ConvertInputs
    /\ callOut = IdleCall
    /\ RateIdle /\ CostIdle /\ ParseIdle /\ MapIdle

SafeIntConversion ==
    /\ callOut' = [op |-> "_safe_int_conversion",
                   result |-> _safe_int_conversion(callIn.row_data, callIn.col_index)]
    /\ UNCHANGED <<callIn, rateVars, costVars, parseVars, mapVars>>

SafeFloatConversion ==
    /\ callOut' = [op |-> "_safe_float_conversion",
                   result |-> _safe_float_conversion(callIn.row_data, callIn.col_index)]
    /\ UNCHANGED <<callIn, rateVars, costVars, parseVars, mapVars>>

ConvertNext == SafeIntConversion \/ SafeFloatConversion

SpecConvert == ConvertInit /\ [][ConvertNext]_vars

IntConverted == callOut.op = "_safe_int_conversion"
FloatConverted == callOut.op = "_safe_float_conversion"
IndexOutside == callIn.col_index < 0 \/ callIn.col_index >= Len(callIn.row_data)
\* the cell the index points at, as written in the row
ConvertedCell == callIn.row_data[callIn.col_index + 1]
CellIs(texts) == ~IndexOutside /\ ConvertedCell \in texts

\* C12: for a cell that is empty, non-numeric or outside the row the int
\* conversion returns 0 and the float conversion 0.0; "12" gives 12 and 12.0;
\* "12.0" gives 12 and 12.0; and neither conversion raises, whatever the cell.
C12_SafeConversions ==
    /\ IntConverted =>
           /\ ~callOut.result.raised
           /\ (IndexOutside \/ CellIs({C_EMPTY, C_ABC})) => callOut.result.v = 0
           /\ CellIs({C_12, C_12_0}) => callOut.result.v = 12
    /\ FloatConverted =>
           /\ (IndexOutside \/ CellIs({C_EMPTY, C_ABC})) => callOut.result = Fin(0)
           /\ CellIs({C_12, C_12_0}) => callOut.result = Fin(12 * FLOAT_SCALE)

(***************************************************************************)
(* Serialization: to_dict / from_dict of the analysis models               *)
(***************************************************************************)
\* data.get(key, default) on a dict
DictGet(data, key, default) == IF key \in DOMAIN data THEN data[key] ELSE default

\* The attributes the body of MatchCategoryData.to_dict reads from self:
\* filename, source_language, ... and self.categories.  A MatchCategoryData has
\* none of them, so the first lookup raises AttributeError.
FileAttributes ==
    {"filename", "source_language", "target_language", "file_path", "cat_tool", "categories"}

MatchCategoryData_to_dict(self) ==
    IF ~(FileAttributes \subseteq DOMAIN self) THEN Raised
    ELSE Ok([filename |-> self.filename,
             source_language |-> self.source_language,
             target_language |-> self.target_language,
             file_path |-> self.file_path,
             analysis_date |-> NoneV,
             cat_tool |-> self.cat_tool,
             total_words |-> SumOver(self.categories, "words"),
             total_segments |-> SumOver(self.categories, "segments"),
             language_pair |-> self.source_language \o <<">">> \o self.target_language,
             categories |-> EmptyMap])

\* FileAnalysisData.to_dict: the dict comprehension calls data.to_dict() for
\* every entry of self.categories, and an exception raised there escapes
CategoryDicts(categories) ==
    [c \in DOMAIN categories |-> MatchCategoryData_to_dict(categories[c])]

DictOfFile(self, dicts) ==
    IF \E c \in DOMAIN dicts : dicts[c].raised THEN Raised
    ELSE Ok([filename |-> self.filename,
             source_language |-> self.source_language,
             target_language |-> self.target_language,
             file_path |-> self.file_path,
             analysis_date |-> NoneV,
             cat_tool |-> self.cat_tool,
             categories |-> [c \in DOMAIN dicts |-> dicts[c].v]])

FileAnalysisData_to_dict(self) == DictOfFile(self, CategoryDicts(self.categories))

\* MatchCategoryData.from_dict: the category is read from the 'category' entry
\* of the dict (No Match when absent or unknown), the rest with defaults
CategoryOrNoMatch(found) == IF IsNone(found) THEN NO_MATCH ELSE Get(found)

MatchCategoryData_from_dict(data) ==
    MatchCategoryData(CategoryOrNoMatch(from_display_name(DictGet(data, "category", ""))),
                      DictGet(data, "segments", 0),
                      DictGet(data, "words", 0),
                      DictGet(data, "characters", 0),
                      DictGet(data, "placeables", 0),
                      DictGet(data, "percent", 0),
                      DictGet(data, "tm_words", NoneV),
                      DictGet(data, "mt_words", NoneV),
                      DictGet(data, "nt_words", NoneV))

\* FileAnalysisData.from_dict: a new object (with the 8 standard categories of
\* __post_init__), then every entry of 'categories' whose name is a display
\* name is stored under that category
KnownNames(categories_data) ==
    {name \in DOMAIN categories_data : ~IsNone(from_display_name(name))}

Deserialized(file_analysis, categories_data) ==
    [file_analysis EXCEPT !.categories =
        [c \in (DOMAIN file_analysis.categories) \cup KnownNames(categories_data) |->
            IF c \in KnownNames(categories_data)
            THEN MatchCategoryData_from_dict(categories_data[c])
            ELSE file_analysis.categories[c]]]

FileAnalysisData_from_dict(data) ==
    Deserialized(
        [NewFileAnalysis(DictGet(data, "filename", <<>>),
                         DictGet(data, "source_language", <<>>),
                         DictGet(data, "target_language", <<>>))
            EXCEPT !.file_path = DictGet(data, "file_path", NoneV),
                   !.cat_tool = DictGet(data, "cat_tool", NoneV)],
        DictGet(data, "categories", EmptyMap))

\* from_dict(to_dict(f)), as ProjectFileRepository stores and reloads a file
RoundTripOf(dict) == IF dict.raised THEN Raised ELSE Ok(FileAnalysisData_from_dict(dict.v))

(***************************************************************************)
(* SpecSerialize: to_dict, from_dict and the round trip                    *)
(***************************************************************************)
UNKNOWN_NAME == "Unknown Match"

\* the dict of one category as json.loads delivers it: complete, without the
\* 'category' entry, or with a TM/MT breakdown
FullEntry(name, words) ==
    [category |-> name, segments |-> 1, words |-> words, characters |-> 0,
     placeables |-> 0, percent |-> 0, tm_words |-> NoneV, mt_words |-> NoneV,
     nt_words |-> NoneV]
BareEntry(words) == [segments |-> 1, words |-> words]
SplitEntryDict(name, words) ==
    [category |-> name, words |-> words, tm_words |-> Some(2), mt_words |-> Some(1)]

EntryDicts(name) ==
    {FullEntry(name, 5), FullEntry(name, 0), BareEntry(7), SplitEntryDict(name, 3)}

CategoriesDicts ==
    {EmptyMap}
        \cup UNION {{(name :> entry) : entry \in EntryDicts(name)} :
                        name \in {EXACT_MATCH, NO_MATCH, MT_MATCH, UNKNOWN_NAME}}
        \cup {[name \in StandardSet |-> FullEntry(name, 5)],
              [name \in AllCategorySet |-> FullEntry(name, 5)],
              [name \in {EXACT_MATCH, UNKNOWN_NAME} |-> SplitEntryDict(name, 3)]}

FileDict(categories) ==
    [filename |-> F_NOLANG, source_language |-> EN, target_language |-> DE,
     file_path |-> NoneV, analysis_date |-> NoneV, cat_tool |-> NoneV,
     categories |-> categories]

DataDicts == {EmptyMap} \cup {FileDict(categories) : categories \in CategoriesDicts}

SerializeFiles ==
    {NewFileAnalysis(F_NOLANG, EN, DE)} \cup {FileOfProfile(p) : p \in WordProfiles}

SerializeInputs ==
    {[op |-> "serialize", file |-> f, data |-> NoneV] : f \in SerializeFiles}
        \cup {[op |-> "deserialize", file |-> NoneV, data |-> Some(d)] : d \in DataDicts}

SerializeInit ==
    /\ callIn \in SerializeInputs
    /\ callOut = IdleCall
    /\ RateIdle /\ CostIdle /\ ParseIdle /\ MapIdle

\* f.to_dict()
ToDict ==
    /\ callIn.op = "serialize"
    /\ callOut' = [op |-> "to_dict", result |-> FileAnalysisData_to_dict(callIn.file)]
    /\ UNCHANGED <<callIn, rateVars, costVars, parseVars, mapVars>>

\* FileAnalysisData.from_dict(f.to_dict())
RoundTrip ==
    /\ callIn.op = "serialize"
    /\ callOut' = [op |-> "round_trip",
                   result |-> RoundTripOf(FileAnalysisData_to_dict(callIn.file))]
    /\ UNCHANGED <<callIn, rateVars, costVars, parseVars, mapVars>>

\* FileAnalysisData.from_dict(data)
FromDict ==
    /\ callIn.op = "deserialize"
    /\ callOut' = [op |-> "from_dict",
                   result |-> Ok(FileAnalysisData_from_dict(Get(callIn.data)))]
    /\ UNCHANGED <<callIn, rateVars, costVars, parseVars, mapVars>>

SerializeNext == ToDict \/ RoundTrip \/ FromDict

SpecSerialize == SerializeInit /\ [][SerializeNext]_vars

SameCategoryValues(a, b) ==
    /\ a.segments = b.segments /\ a.words = b.words
    /\ a.characters = b.characters /\ a.placeables = b.placeables
    /\ a.percent = b.percent
    /\ a.tm_words = b.tm_words /\ a.mt_words = b.mt_words /\ a.nt_words = b.nt_words

\* C13: for every FileAnalysisData f, f.to_dict() succeeds, and
\* from_dict(f.to_dict()) has for each of the 8 standard categories the same
\* segments, words, characters, placeables, percent and tm/mt/nt words as f.
C13_RoundTrip ==
    /\ callOut.op = "to_dict" => ~callOut.result.raised
    /\ callOut.op = "round_trip" =>
           /\ ~callOut.result.raised
           /\ \A c \in StandardSet :
                  /\ c \in DOMAIN callOut.result.v.categories
                  /\ SameCategoryValues(callOut.result.v.categories[c],
                                        callIn.file.categories[c])

(***************************************************************************)
(* SpecAggregate: ProjectAnalysisData.get_aggregated_categories            *)
(***************************************************************************)
\* a file whose 100% entry carries only tm_words, one whose categories map
\* was given with the No Match entry alone, and one holding an MT Match entry
FileWithTmOnly ==
    WithCategories(NewFileAnalysis(F_NOLANG, EN, DE),
        [category \in StandardSet |->
            MatchCategoryData(category, 2, 9, 3, 1, 0, Some(4), NoneV, NoneV)])
FileWithOneCategory ==
    WithCategories(NewFileAnalysis(F_NOLANG, EN, DE),
        (NO_MATCH :> MatchCategoryData(NO_MATCH, 1, 11, 40, 2, 0, NoneV, NoneV, NoneV)))
FileWithMtMatch ==
    WithCategories(NewFileAnalysis(F_NOLANG, EN, DE),
        [category \in AllCategorySet |->
            MatchCategoryData(category, 1, 3, 12, 0, 0, NoneV, NoneV, NoneV)])

AggregateProfiles ==
    {[exact |-> 0, fuzzy |-> 0, nomatch |-> 0, explicit |-> FALSE],
     [exact |-> 15, fuzzy |-> 7, nomatch |-> 0, explicit |-> FALSE],
     [exact |-> 100, fuzzy |-> 0, nomatch |-> 400, explicit |-> TRUE],
     [exact |-> 0, fuzzy |-> 7, nomatch |-> 600, explicit |-> TRUE],
     [exact |-> 15, fuzzy |-> 0, nomatch |-> 400, explicit |-> FALSE]}

AggregateFiles ==
    {FileOfProfile(p) : p \in AggregateProfiles}
        \cup {FileWithTmOnly, FileWithOneCategory, FileWithMtMatch}

AggregateInputs ==
    {[op |-> "aggregate", files |-> files] : files \in SeqsUpTo(AggregateFiles, MaxFiles)}

AggregateInit ==
    /\ callIn \in AggregateInputs
    /\ callOut = IdleCall
    /\ RateIdle /\ CostIdle /\ ParseIdle /\ MapIdle

GetAggregatedCategories ==
    /\ callOut' = [op |-> "get_aggregated_categories",
                   result |-> get_aggregated_categories(callIn.files)]
    /\ UNCHANGED <<callIn, rateVars, costVars, parseVars, mapVars>>

\* ProjectAnalysisData.get_total_words
GetProjectTotalWords ==
    /\ callOut' = [op |-> "get_total_words", result |-> ProjectTotalWords(callIn.files)]
    /\ UNCHANGED <<callIn, rateVars, costVars, parseVars, mapVars>>

AggregateNext == GetAggregatedCategories \/ GetProjectTotalWords

SpecAggregate == AggregateInit /\ [][AggregateNext]_vars

Aggregated == callOut.op = "get_aggregated_categories"

\* the entry of file i for a category: what the file holds under the key,
\* nothing (all zero, no breakdown) when it has no such key
HasEntry(i, c) == c \in DOMAIN callIn.files[i].categories
EntryValue(i, c, field) == IF HasEntry(i, c) THEN callIn.files[i].categories[c][field] ELSE 0
EntryCount(i, c, field) ==
    IF HasEntry(i, c) /\ callIn.files[i].categories[c][field] # NoneV
    THEN callIn.files[i].categories[c][field][1] ELSE 0
EntryCarriesBreakdown(i, c) ==
    /\ HasEntry(i, c)
    /\ \E field \in {"tm_words", "mt_words", "nt_words"} :
           callIn.files[i].categories[c][field] # NoneV

RECURSIVE ValueUpTo(_, _, _)
ValueUpTo(n, c, field) ==
    IF n = 0 THEN 0 ELSE EntryValue(n, c, field) + ValueUpTo(n - 1, c, field)
RECURSIVE CountUpTo(_, _, _)
CountUpTo(n, c, field) ==
    IF n = 0 THEN 0 ELSE EntryCount(n, c, field) + CountUpTo(n - 1, c, field)
RECURSIVE WordsOfFilesUpTo(_)
WordsOfFilesUpTo(n) ==
    IF n = 0 THEN 0
    ELSE SumOver(callIn.files[n].categories, "words") + WordsOfFilesUpTo(n - 1)

FileCount == Len(callIn.files)
SumsAreTotals(c) ==
    \A field \in {"segments", "words", "characters", "placeables"} :
        callOut.result[c][field] = ValueUpTo(FileCount, c, field)
\* percent (in thousandths) is words / total * 100, 0 for an empty total
PercentIsShare(c) ==
    IF WordsOfFilesUpTo(FileCount) = 0 THEN callOut.result[c].percent = 0
    ELSE /\ callOut.result[c].percent * WordsOfFilesUpTo(FileCount)
               <= ValueUpTo(FileCount, c, "words") * 100 * FLOAT_SCALE
         /\ (callOut.result[c].percent + 1) * WordsOfFilesUpTo(FileCount)
               > ValueUpTo(FileCount, c, "words") * 100 * FLOAT_SCALE
BreakdownIffCarried(c) ==
    IF \E i \in 1..FileCount : EntryCarriesBreakdown(i, c)
    THEN \A field \in {"tm_words", "mt_words", "nt_words"} :
             callOut.result[c][field] = Some(CountUpTo(FileCount, c, field))
    ELSE \A field \in {"tm_words", "mt_words", "nt_words"} :
             callOut.result[c][field] = NoneV

\* C14: get_aggregated_categories returns, for each of the 8 standard
\* categories, the sums of segments, words, characters and placeables over the
\* files; percent = the category's words / the project's total words * 100 (0
\* when the total is 0); and a TM/MT/NT breakdown (the per-field sums) if and
\* only if at least one file's entry for the category carried one.
C14_AggregationSums ==
    Aggregated =>
        /\ DOMAIN callOut.result = StandardSet
        /\ \A c \in StandardSet :
               SumsAreTotals(c) /\ PercentIsShare(c) /\ BreakdownIffCarried(c)

\* two files, one carrying a breakdown for 100% and one not, and a share that
\* is not a whole percentage
C14_Witness ==
    /\ Aggregated
    /\ FileCount = 2
    /\ EntryCarriesBreakdown(1, EXACT_MATCH) /\ ~EntryCarriesBreakdown(2, EXACT_MATCH)
    /\ callOut.result[EXACT_MATCH].tm_words # NoneV
    /\ callOut.result[NO_MATCH].tm_words = NoneV
    /\ callOut.result[EXACT_MATCH].percent % FLOAT_SCALE # 0

(***************************************************************************)
(* SpecTotal: where amounts are quantized                                  *)
(***************************************************************************)
\* FileAnalysisData.calculate_total_cost(rates, mt_percentage): rates maps a
\* category to a Decimal; the sum is quantized to 0.01 with the rounding of
\* the default decimal context (ROUND_HALF_EVEN)
PriceOfMt(rates, tm_rate) == IF MT_MATCH \in DOMAIN rates THEN rates[MT_MATCH] ELSE tm_rate

CostOfWords(category, data, word_breakdown, rates) ==
    IF supports_mt_breakdown(category) /\ word_breakdown.mt > 0
    THEN word_breakdown.tm * rates[category]
             + word_breakdown.mt * PriceOfMt(rates, rates[category])
    ELSE data.words * rates[category]

CostOfCategory(self, category, rates, mt_percentage) ==
    IF category \in DOMAIN self.categories /\ category \in DOMAIN rates
    THEN CostOfWords(category, self.categories[category],
                     get_cost_calculation_words(self.categories[category], mt_percentage),
                     rates)
    ELSE 0

calculate_total_cost(self, rates, mt_percentage) ==
    quantize(CostOfCategory(self, CONTEXT_MATCH, rates, mt_percentage)
                 + CostOfCategory(self, REPETITIONS, rates, mt_percentage)
                 + CostOfCategory(self, EXACT_MATCH, rates, mt_percentage)
                 + CostOfCategory(self, HIGH_FUZZY, rates, mt_percentage)
                 + CostOfCategory(self, MEDIUM_HIGH_FUZZY, rates, mt_percentage)
                 + CostOfCategory(self, MEDIUM_FUZZY, rates, mt_percentage)
                 + CostOfCategory(self, LOW_FUZZY, rates, mt_percentage)
                 + CostOfCategory(self, NO_MATCH, rates, mt_percentage)
                 + CostOfCategory(self, MT_MATCH, rates, mt_percentage),
             QUANTUM_CENT)

MaxPricedWords == 8

\* per-word prices as Decimals: 0.1, 0.125, 0.1234, 0.12345, 0.00005
Prices == {10000, 12500, 12340, 12345, 5}

PricedFile(nomatch, fuzzy) ==
    WithCategories(NewFileAnalysis(F_NOLANG, EN, DE),
        [category \in StandardSet |->
            MatchCategoryData(category, 1,
                IF category = NO_MATCH THEN nomatch
                ELSE IF category = HIGH_FUZZY THEN fuzzy ELSE 0,
                0, 0, 0, NoneV, NoneV, NoneV)])

TotalInputs ==
    {[op |-> "price", file |-> PricedFile(n, f), words |-> n + f, price |-> price] :
        n \in 0..MaxPricedWords, f \in {0, 7}, price \in Prices}

TotalInit ==
    /\ callIn \in TotalInputs
    /\ callOut = IdleCall
    /\ RateIdle /\ CostIdle /\ ParseIdle /\ MapIdle

\* the Rate of a category built from the price: Rate(...) and __post_init__
RateOfPrice(category) ==
    Rate(NoneV, TRANSLATOR, NoneV, LANGUAGE_PAIR, get_category_mapping[category],
         callIn.price, 0, FALSE, NOW)

NewRate ==
    /\ callOut' = [op |-> "Rate", result |-> RateOfPrice(NO_MATCH).rate_per_word]
    /\ UNCHANGED <<callIn, rateVars, costVars, parseVars, mapVars>>

FileCalculateTotalCost ==
    /\ callOut' = [op |-> "calculate_total_cost",
                   result |-> calculate_total_cost(callIn.file,
                                  [category \in StandardSet |-> callIn.price], 0)]
    /\ UNCHANGED <<callIn, rateVars, costVars, parseVars, mapVars>>

BreakdownTotal ==
    /\ callOut' = [op |-> "_calculate_breakdown",
                   result |-> _calculate_breakdown(callIn.file,
                                  [category \in StandardSet |-> RateOfPrice(category)],
                                  0).total_cost]
    /\ UNCHANGED <<callIn, rateVars, costVars, parseVars, mapVars>>

TotalNext == NewRate \/ FileCalculateTotalCost \/ BreakdownTotal

SpecTotal == TotalInit /\ [][TotalNext]_vars

\* round-half-up of an amount to a multiple of step
RoundHalfUp(v, step) == step * ((2 * v + step) \div (2 * step))

\* C15: the grand total of a cost calculation is held at 2 decimal places and
\* is the round-half-up of the exact amount (words x rate), and every Rate's
\* rate_per_word is held at 4 decimal places.
C15_TotalRoundedHalfUp ==
    /\ callOut.op = "Rate" => callOut.result % QUANTUM_RATE = 0
    /\ callOut.op = "calculate_total_cost" =>
           callOut.result = RoundHalfUp(callIn.words * callIn.price, QUANTUM_CENT)
    /\ callOut.op = "_calculate_breakdown" =>
           callOut.result =
               RoundHalfUp(callIn.words * RateOfPrice(NO_MATCH).rate_per_word, QUANTUM_CENT)

(***************************************************************************)
(* The calculation service on the stored tables                            *)
(***************************************************************************)
\* LanguagePairRepository.find_by_languages: the row with these two codes
PairRows(pairs, source_lang, target_lang) ==
    SelectSeq(pairs, LAMBDA r :
        r.source_language = source_lang /\ r.target_language = target_lang)
find_by_languages(pairs, source_lang, target_lang) ==
    IF PairRows(pairs, source_lang, target_lang) = <<>> THEN NoneV
    ELSE Some(PairRows(pairs, source_lang, target_lang)[1])

\* LanguagePair(...) and __post_init__: the codes stripped and lower-cased
LanguagePair(id, source_language, target_language) ==
    [id |-> id, source_language |-> Lower(Strip(source_language)),
     target_language |-> Lower(Strip(target_language))]
LanguagePair_is_valid(pair) == ValidPair(pair.source_language, pair.target_language)

\* BaseRepository.create on language_pairs: the row is inserted under the
\* next id
create(pairs, model) == Append(pairs, [model EXCEPT !.id = Len(pairs) + 1])

\* language_pairs after LanguagePairRepository.get_or_create: a pair that is
\* not found and is valid is inserted
PairsAfterCreate(pairs, new_pair) ==
    IF LanguagePair_is_valid(new_pair) THEN create(pairs, new_pair) ELSE pairs
get_or_create_rows(pairs, source_lang, target_lang) ==
    IF ~IsNone(find_by_languages(pairs, source_lang, target_lang)) THEN pairs
    ELSE PairsAfterCreate(pairs, LanguagePair(NoneV, source_lang, target_lang))

\* ... and the pair it returns: the row found, the row created, or None
PairOrCreated(pairs, found, new_pair) ==
    IF ~IsNone(found) THEN found
    ELSE IF LanguagePair_is_valid(new_pair) THEN Some([new_pair EXCEPT !.id = Len(pairs) + 1])
    ELSE NoneV
get_or_create_pair(pairs, source_lang, target_lang) ==
    PairOrCreated(pairs, find_by_languages(pairs, source_lang, target_lang),
                  LanguagePair(NoneV, source_lang, target_lang))

\* CalculationService._aggregate_multiple_files: like the project
\* aggregation, but nt_words is never set and percent is taken over the
\* words of the standard categories
StandardWords(file) ==
    FieldOf(file.categories, CONTEXT_MATCH, "words") + FieldOf(file.categories, REPETITIONS, "words")
        + FieldOf(file.categories, EXACT_MATCH, "words") + FieldOf(file.categories, HIGH_FUZZY, "words")
        + FieldOf(file.categories, MEDIUM_HIGH_FUZZY, "words")
        + FieldOf(file.categories, MEDIUM_FUZZY, "words")
        + FieldOf(file.categories, LOW_FUZZY, "words") + FieldOf(file.categories, NO_MATCH, "words")
TotalAllWords(files) == SumSeq([i \in 1..Len(files) |-> StandardWords(files[i])])

WithTmMt(data, has_breakdown, tm, mt) ==
    IF has_breakdown THEN [data EXCEPT !.tm_words = Some(tm), !.mt_words = Some(mt)] ELSE data

MULTIPLE_FILES == <<"M", "u", "l", "t", "i", "p", "l", "e", " ", "F", "i", "l", "e", "s">>

EMPTY_FILES == <<"E", "m", "p", "t", "y">>

_aggregate_multiple_files(files) ==
    IF files = <<>> THEN NewFileAnalysis(EMPTY_FILES, <<>>, <<>>)
    ELSE WithCategories(
        NewFileAnalysis(MULTIPLE_FILES, files[1].source_language, files[1].target_language),
        [category \in StandardSet |->
            WithTmMt(
                MatchCategoryData(category,
                    FieldOfFiles(files, category, "segments"),
                    FieldOfFiles(files, category, "words"),
                    FieldOfFiles(files, category, "characters"),
                    FieldOfFiles(files, category, "placeables"),
                    PercentOf(FieldOfFiles(files, category, "words"), TotalAllWords(files)),
                    NoneV, NoneV, NoneV),
                HasBreakdown(files, category),
                OptOfFiles(files, category, "tm_words"),
                OptOfFiles(files, category, "mt_words"))])

\* the breakdown of an analysis under the rates of the pair, None without a
\* pair or without rates
BreakdownWithRates(analysis, rates, mt_percentage) ==
    IF DOMAIN rates = {} THEN NoneV
    ELSE Some(_calculate_breakdown(analysis, rates, mt_percentage))

BreakdownForPair(analysis, table, language_pair, translator_id, client_id, mt_percentage) ==
    IF IsNone(language_pair) THEN NoneV
    ELSE BreakdownWithRates(analysis,
             _get_rates_for_calculation(table, translator_id, Get(language_pair).id, client_id),
             mt_percentage)

\* CalculationService.calculate_file_cost
calculate_file_cost(table, pairs, file_analysis, translator_id, client_id, mt_percentage) ==
    BreakdownForPair(file_analysis, table,
        get_or_create_pair(pairs, file_analysis.source_language, file_analysis.target_language),
        translator_id, client_id, mt_percentage)

\* CalculationService.calculate_multiple_files_cost
calculate_multiple_files_cost(table, pairs, file_analyses, translator_id, client_id, mt_percentage) ==
    IF file_analyses = <<>> THEN NoneV
    ELSE BreakdownForPair(_aggregate_multiple_files(file_analyses), table,
             get_or_create_pair(pairs, file_analyses[1].source_language,
                                file_analyses[1].target_language),
             translator_id, client_id, mt_percentage)

\* CalculationService.validate_calculation_inputs
DefaultRateCount(rates) == Cardinality({c \in DOMAIN rates : IsNone(rates[c].id)})
DefaultRateWarnings(count) ==
    IF count > 0 THEN <<[text |-> "Using default rates for categories", count |-> count]>>
    ELSE <<>>

ValidationOfRates(rates) ==
    IF DOMAIN rates = {}
    THEN [valid |-> FALSE, errors |-> <<"No rates found for translator and language pair">>,
          warnings |-> <<>>]
    ELSE [valid |-> TRUE, errors |-> <<>>,
          warnings |-> DefaultRateWarnings(DefaultRateCount(rates))]

ValidationForPair(table, language_pair, translator_id, client_id) ==
    IF IsNone(language_pair)
    THEN [valid |-> FALSE, errors |-> <<"Invalid language pair">>, warnings |-> <<>>]
    ELSE ValidationOfRates(
             _get_rates_for_calculation(table, translator_id, Get(language_pair).id, client_id))

validate_calculation_inputs(table, pairs, translator_id, source_language, target_language, client_id) ==
    ValidationForPair(table, get_or_create_pair(pairs, source_language, target_language),
                      translator_id, client_id)

(***************************************************************************)
(* SpecService: the service calls on translator_rates and language_pairs   *)
(***************************************************************************)
\* rate tables of the translator: complete, without the MT Match rate,
\* without the 95% - 99% rate, without both, or empty
ServiceRateSpecs ==
    [exact : {5000}, mt : {NoneV, Some(2000)}, partial : BOOLEAN, fee : {0}, enabled : {FALSE}]
ServiceTables == {<<>>} \cup {TableOfSpec(spec) : spec \in ServiceRateSpecs}

FileInLanguages(p, source_language, target_language) ==
    [FileOfProfile(p) EXCEPT !.source_language = source_language,
                             !.target_language = target_language]

ServiceProfiles ==
    {[exact |-> 15, fuzzy |-> 7, nomatch |-> 0, explicit |-> FALSE],
     [exact |-> 100, fuzzy |-> 0, nomatch |-> 400, explicit |-> TRUE]}
ServiceFiles ==
    {FileInLanguages(p, EN, target) : p \in ServiceProfiles, target \in {DE, EN}}
ServiceFileLists == SeqsUpTo(ServiceFiles, MaxFiles)

\* the stored pairs and rates: rates are stored for a stored pair only
ServiceStores ==
    {[pairs |-> <<>>, table |-> <<>>]}
        \cup {[pairs |-> StoredPairs, table |-> table] : table \in ServiceTables}

ServiceInit ==
    /\ \E store \in ServiceStores :
           languagePairs = store.pairs /\ rateTable = store.table
    /\ costIn \in {[op |-> "service", files |-> files, mt_percentage |-> 70] :
                       files \in ServiceFileLists}
    /\ rateQuery = NoneV /\ rateResult = NoneV
    /\ costOut = IdleCostOut
    /\ ParseIdle /\ MapIdle /\ CallIdle

\* the languages a call is made for: those of the first file
HasFiles == costIn.files # <<>>
CallSource == costIn.files[1].source_language
CallTarget == costIn.files[1].target_language
ServiceProject == Project(costIn.files, CallSource, CallTarget, costIn.mt_percentage)

ServiceCalculateFileCost ==
    /\ HasFiles
    /\ costOut' = [op |-> "calculate_file_cost",
                   result |-> calculate_file_cost(rateTable, languagePairs, costIn.files[1],
                                                  TRANSLATOR, NoneV, costIn.mt_percentage)]
    /\ languagePairs' = get_or_create_rows(languagePairs, CallSource, CallTarget)
    /\ UNCHANGED <<rateTable, rateQuery, rateResult, costIn, parseVars, mapVars, callVars>>

ServiceCalculateMultipleFilesCost ==
    /\ costOut' = [op |-> "calculate_multiple_files_cost",
                   result |-> calculate_multiple_files_cost(rateTable, languagePairs,
                                  costIn.files, TRANSLATOR, NoneV, costIn.mt_percentage)]
    /\ languagePairs' = IF HasFiles
                        THEN get_or_create_rows(languagePairs, CallSource, CallTarget)
                        ELSE languagePairs
    /\ UNCHANGED <<rateTable, rateQuery, rateResult, costIn, parseVars, mapVars, callVars>>

\* calculate_project_cost: the stores considered hold no pair but en>de, so the
\* pair found or created has the id the rates are stored under
ServiceCalculateProjectCost ==
    /\ HasFiles
    /\ costOut' = [op |-> "calculate_project_cost",
                   result |-> calculate_project_cost(ServiceProject, rateTable)]
    /\ languagePairs' = get_or_create_rows(languagePairs, CallSource, CallTarget)
    /\ UNCHANGED <<rateTable, rateQuery, rateResult, costIn, parseVars, mapVars, callVars>>

ValidateCalculationInputs ==
    /\ HasFiles
    /\ costOut' = [op |-> "validate_calculation_inputs",
                   result |-> validate_calculation_inputs(rateTable, languagePairs, TRANSLATOR,
                                                          CallSource, CallTarget, NoneV)]
    /\ languagePairs' = get_or_create_rows(languagePairs, CallSource, CallTarget)
    /\ UNCHANGED <<rateTable, rateQuery, rateResult, costIn, parseVars, mapVars, callVars>>

\* _get_rates_for_calculation for the stored pair
GetRatesForCalculation ==
    /\ languagePairs # <<>>
    /\ costOut' = [op |-> "_get_rates_for_calculation",
                   result |-> _get_rates_for_calculation(rateTable, TRANSLATOR,
                                                         LANGUAGE_PAIR, NoneV)]
    /\ UNCHANGED <<rateVars, costIn, parseVars, mapVars, callVars>>

ServiceNext ==
    \/ ServiceCalculateFileCost
    \/ ServiceCalculateMultipleFilesCost
    \/ ServiceCalculateProjectCost
    \/ ValidateCalculationInputs
    \/ GetRatesForCalculation

SpecService == ServiceInit /\ [][ServiceNext]_vars

\* rate resolution returns None for the category: translator_rates has no
\* row of the translator and the pair for it
ResolvesToNone(c) ==
    \A i \in 1..Len(rateTable) :
        \/ rateTable[i].translator_id # TRANSLATOR
        \/ rateTable[i].language_pair_id # LANGUAGE_PAIR
        \/ rateTable[i].match_category_id # get_category_mapping[c]
UnresolvedCategories == {c \in AllCategorySet : ResolvesToNone(c)}

CostCalls == {"calculate_file_cost", "calculate_multiple_files_cost", "calculate_project_cost"}
CallPairValid == HasFiles /\ CallSource # <<>> /\ CallTarget # <<>> /\ CallSource # CallTarget
RateUsed(entry) == IF "tm_rate" \in DOMAIN entry THEN entry.tm_rate ELSE entry.rate

PlaceholdersAtDefault ==
    \A c \in AllCategorySet :
        /\ c \in DOMAIN costOut.result
        /\ IF ResolvesToNone(c)
           THEN /\ costOut.result[c].id = NoneV
                /\ costOut.result[c].rate_per_word = DEFAULT_RATES[c]
           ELSE costOut.result[c].id # NoneV
CostedAtDefault ==
    /\ costOut.result # NoneV
    /\ \A c \in DOMAIN costOut.result[1].category_costs :
           ResolvesToNone(c) => RateUsed(costOut.result[1].category_costs[c]) = DEFAULT_RATES[c]
WarningOnly ==
    /\ costOut.result.valid
    /\ costOut.result.errors = <<>>
    /\ Len(costOut.result.warnings) = 1
    /\ costOut.result.warnings[1].count = Cardinality(UnresolvedCategories)

\* C17: when rate resolution returns None for a category, the calculation
\* continues with a non-persisted placeholder Rate (id = None) at the
\* configured default rate of that category, and validate_calculation_inputs
\* reports the default rates as a warning only: valid stays true and the error
\* list empty.
C17_DefaultRatePlaceholder ==
    /\ costOut.op = "_get_rates_for_calculation" => PlaceholdersAtDefault
    /\ (costOut.op \in CostCalls /\ CallPairValid /\ UnresolvedCategories # {})
           => CostedAtDefault
    /\ (costOut.op = "validate_calculation_inputs" /\ CallPairValid
            /\ UnresolvedCategories # {}) => WarningOnly

\* only the 95% - 99% rate is missing; the file holds words of that category
C17_Witness ==
    /\ UnresolvedCategories = {HIGH_FUZZY}
    /\ CallPairValid
    /\ costOut.op = "calculate_file_cost"
    /\ costOut.result # NoneV
    /\ HIGH_FUZZY \in DOMAIN costOut.result[1].category_costs
    /\ costOut.result[1].category_costs[HIGH_FUZZY].rate = DEFAULT_RATES[HIGH_FUZZY]

\* C18: the calculations and validate_calculation_inputs are free of side
\* effects: they leave the persistent store unchanged (no language pair, rate
\* or other row is created, updated or deleted) and leave their input
\* analysis data unchanged.
C18_SideEffectFree ==
    [][/\ languagePairs' = languagePairs
       /\ rateTable' = rateTable
       /\ costIn' = costIn]_vars

(***************************************************************************)
(* SpecProduce: every way a FileAnalysisData comes into being from outside *)
(* data, the two parser entry points and FileAnalysisData.from_dict        *)
(***************************************************************************)
\* header shapes whose line 1 names MT Match, few or all standard categories
ProduceShapes ==
    {[names |-> <<MT_MATCH, CONTEXT_MATCH>>, sep |-> 4, variant |-> "standard",
      nb |-> 2, width |-> 4, tail |-> 3],
     [names |-> <<NO_MATCH, MT_MATCH>>, sep |-> 5, variant |-> "standard",
      nb |-> 2, width |-> 5, tail |-> 0],
     Shape(8, 5, "standard", 8, 5, 4),
     Shape(2, 4, "standard", 2, 4, 3),
     Shape(0, 4, "standard", 2, 4, 3)}

ProduceReports ==
    {MkReport(h, rows) : h \in ProduceShapes, rows \in SeqsUpTo(CommonRows, MaxRows)}

ProduceInit ==
    \/ /\ report \in ProduceReports
       /\ parseOut = IdleParse
       /\ RateIdle /\ CostIdle /\ MapIdle /\ CallIdle
    \/ /\ callIn \in {i \in SerializeInputs : i.op = "deserialize"}
       /\ callOut = IdleCall
       /\ RateIdle /\ CostIdle /\ ParseIdle /\ MapIdle

ProduceNext == Parse \/ ParseMultipleFiles \/ FromDict

SpecProduce == ProduceInit /\ [][ProduceNext]_vars

\* the FileAnalysisData objects the parser returned
ParsedFiles ==
    IF parseOut.op = "parse"
    THEN (IF parseOut.none THEN {} ELSE {Get(parseOut.single)})
    ELSE {parseOut.files[i] : i \in 1..Len(parseOut.files)}

\* the categories header line 1 of the report is mapped to
HeaderCategories ==
    IF Len(report) >= 2 THEN DOMAIN ReportMapping.categories ELSE {}

HasStandardKeys(f) == StandardSet \subseteq DOMAIN f.categories

AbsentAreZero(f) ==
    \A c \in StandardSet \ HeaderCategories : f.categories[c] = EmptyCategoryData(c)

\* C19: a FileAnalysisData returned by parse, parse_multiple_files or
\* from_dict has the 8 standard categories as keys of its categories map;
\* in a parsed file the categories the header does not map hold zero counts
\* and MT Match is not a key
C19_AllStandardKeys ==
    /\ ParserActed =>
            \A f \in ParsedFiles :
                /\ HasStandardKeys(f)
                /\ AbsentAreZero(f)
                /\ MT_MATCH \notin DOMAIN f.categories
    /\ callOut.op = "from_dict" => HasStandardKeys(callOut.result.v)

\* the parser returned a file from a report whose header names MT Match and
\* fewer than 8 standard categories
C19_Witness ==
    /\ ParserActed
    /\ ParsedFiles # {}
    /\ \E i \in 1..Len(report[1]) : report[1][i] = MT_MATCH
    /\ HeaderCategories # {}
    /\ HeaderCategories # StandardSet

(***************************************************************************)
(* Column positions recorded by map_columns, stated on the header pair     *)
(***************************************************************************)
MapColumnsActed == mapOut.op = "map_columns"

\* the category names of header line 1, 0-based
HeaderNames == extract_categories_from_header(mapIn.header_lines[1])
HeaderNameIndices == 0..(Len(HeaderNames) - 1)
HeaderName(k) == HeaderNames[k + 1]

FieldsPerCategory == Len(CategoryFields(mapIn.mapping.format_type))

IsRecognized(k) == ~IsNone(_map_category_name_to_type(HeaderName(k)))
TypeOfName(k) == Get(_map_category_name_to_type(HeaderName(k)))
RecognizedTypes == {TypeOfName(k) : k \in {i \in HeaderNameIndices : IsRecognized(i)}}

\* the column of field number j (from 1) of the k-th block after column 3
BlockColumn(k, j) == FIRST_CATEGORY_COLUMN + k * FieldsPerCategory + (j - 1)

FieldNumber(fields, field) == CHOOSE j \in 1..Len(fields) : fields[j] = field

\* field -> column for the fields of block k whose column is below limit
BlockUpTo(k, fields, limit) ==
    [f \in {fields[j] : j \in {i \in 1..Len(fields) : BlockColumn(k, i) < limit}} |->
        BlockColumn(k, FieldNumber(fields, f))]

\* the whole block k, field by field
BlockOfName(k) ==
    BlockUpTo(k, CategoryFields(mapIn.mapping.format_type),
              BlockColumn(k + 1, 1))

\* the part of block k that lies within the columns of header line 2
BlockWithinHeader(k) ==
    BlockUpTo(k, CategoryFields(mapIn.mapping.format_type),
              SemicolonColumns(mapIn.header_lines[2]))

IsLastOccurrence(k) ==
    \A l \in HeaderNameIndices : l > k => HeaderName(l) # HeaderName(k)

DisjointCategoryColumns ==
    \A c \in DOMAIN mapIn.mapping.categories :
        \A d \in DOMAIN mapIn.mapping.categories :
            c # d => Values(mapIn.mapping.categories[c])
                         \cap Values(mapIn.mapping.categories[d]) = {}

\* C20: map_columns maps the k-th category name of header line 1, when it
\* is recognized, field by field to the fields_per_category columns from
\* 3 + k * fields_per_category on; unrecognized names record no mapping;
\* the column sets of two different categories are disjoint.
C20_BlockPositions ==
    MapColumnsActed =>
        /\ \A k \in HeaderNameIndices :
               IsRecognized(k) =>
                   /\ TypeOfName(k) \in DOMAIN mapIn.mapping.categories
                   /\ mapIn.mapping.categories[TypeOfName(k)] = BlockOfName(k)
        /\ DOMAIN mapIn.mapping.categories = RecognizedTypes
        /\ DisjointCategoryColumns

\* C20 amended: the k-th category name, when it is recognized and is the
\* last occurrence of its name, is mapped field by field to those of the
\* columns 3 + k * fields_per_category + j that header line 2 has; fields
\* whose column lies beyond the last column stay unmapped; unrecognized
\* names record no mapping; the column sets of two different categories
\* are disjoint.
C20_BlockPositionsWithinHeader ==
    MapColumnsActed =>
        /\ \A k \in HeaderNameIndices :
               (IsRecognized(k) /\ IsLastOccurrence(k)) =>
                   /\ TypeOfName(k) \in DOMAIN mapIn.mapping.categories
                   /\ mapIn.mapping.categories[TypeOfName(k)] = BlockWithinHeader(k)
        /\ DOMAIN mapIn.mapping.categories = RecognizedTypes
        /\ DisjointCategoryColumns

\* map_columns mapped a recognized name that follows an unrecognized one to
\* the whole of its block
C20_Witness ==
    /\ MapColumnsActed
    /\ \E k \in HeaderNameIndices :
           /\ k >= 1
           /\ ~IsRecognized(0)
           /\ IsRecognized(k)
           /\ mapIn.mapping.categories[TypeOfName(k)] = BlockOfName(k)
           /\ BlockOfName(k) = BlockWithinHeader(k)

(***************************************************************************)
(* The total section recorded by map_columns                               *)
(***************************************************************************)
\* the first column after the blocks of all category names, and the number
\* of columns of header line 2 from there on
AfterCategories == BlockColumn(Len(HeaderNames), 1)
RemainingColumns == SemicolonColumns(mapIn.header_lines[2]) - AfterCategories

TotalOfThree ==
    ("segments" :> AfterCategories) @@ ("words" :> AfterCategories + 1)
        @@ ("placeables" :> AfterCategories + 2)

TotalOfFour == TotalOfThree @@ ("characters" :> AfterCategories + 3)

\* C21: when at least 3 columns of header line 2 remain after the category
\* blocks, the total section is segments, words, placeables at the next
\* three columns, and characters at the fourth when a fourth remains, in
\* both formats; with fewer than 3 remaining no total column is mapped.
C21_TotalSection ==
    MapColumnsActed =>
        /\ RemainingColumns >= 4 => mapIn.mapping.total_columns = TotalOfFour
        /\ RemainingColumns = 3 => mapIn.mapping.total_columns = TotalOfThree
        /\ RemainingColumns < 3 => mapIn.mapping.total_columns = EmptyMap

(***************************************************************************)
(* SpecFileInfo: _extract_file_info and parse_language_pair_from_filename  *)
(* on 'File' cells put together from a name, a separator and a pair        *)
(***************************************************************************)
CellNames == {<<>>, <<"a">>, <<"a", "_", "E", "N", ">", "d", "e">>}
CellSeparators == {<<>>, PIPE, <<"|">>}
CellSources == {<<>>, EN, <<"e">>, <<" ">>}
CellArrows == {<<>>, <<">">>, <<">", ">">>}
CellTargets == {<<>>, DE, <<"d">>}

InfoCells ==
    {n \o p \o src \o a \o tgt :
        n \in CellNames, p \in CellSeparators, src \in CellSources,
        a \in CellArrows, tgt \in CellTargets}

\* column mappings that differ in where the File column is
FileAt(i) == [EmptyMapping EXCEPT !.fixed_columns = ("File" :> i)]
InfoMappings == {EmptyMapping, FileAt(0), FileAt(1), FileAt(2)}

InfoInputs ==
    {[op |-> "row", row_data |-> <<cell, F_HALF>>, mapping |-> m] :
        cell \in InfoCells, m \in InfoMappings}

InfoInit ==
    /\ callIn \in InfoInputs
    /\ callOut = IdleCall
    /\ RateIdle /\ CostIdle /\ ParseIdle /\ MapIdle

ExtractFileInfo ==
    /\ callIn.op = "row"
    /\ callOut' = [op |-> "_extract_file_info",
                   result |-> _extract_file_info(callIn.row_data, callIn.mapping)]
    /\ UNCHANGED <<callIn, rateVars, costVars, parseVars, mapVars>>

ParseLanguagePairFromFilename ==
    /\ callIn.op = "row"
    /\ callOut' = [op |-> "parse_language_pair_from_filename",
                   result |-> parse_language_pair_from_filename(callIn.row_data[1])]
    /\ UNCHANGED <<callIn, rateVars, costVars, parseVars, mapVars>>

InfoNext == ExtractFileInfo \/ ParseLanguagePairFromFilename

SpecFileInfo == InfoInit /\ [][InfoNext]_vars

\* C22: the source and target language returned by _extract_file_info are
\* both empty or both set, never one without the other
C22_LanguagesBothOrNone ==
    callOut.op = "_extract_file_info" =>
        (callOut.result.source_language = <<>> <=> callOut.result.target_language = <<>>)

(***************************************************************************)
(* SpecCategory: MatchCategoryData objects as they are constructed, read   *)
(* from a dict, stored in a FileAnalysisData and aggregated                *)
(***************************************************************************)
\* file.set_category_data(category, data): the key is stamped on the value
\* and the value stored; nothing else of the value is touched
set_category_data(fa, category, data) ==
    [fa EXCEPT !.categories =
        [c \in (DOMAIN fa.categories) \cup {category} |->
            IF c = category THEN [data EXCEPT !.category = category]
            ELSE fa.categories[c]]]

CategoryValues ==
    [category : {EXACT_MATCH, NO_MATCH, MT_MATCH},
     count : {-1, 0, 5},
     percent : {-1, 50 * FLOAT_SCALE, 100 * FLOAT_SCALE + 1},
     tm_words : {NoneV, Some(-2), Some(3)},
     mt_words : {NoneV, Some(1)},
     key : {EXACT_MATCH, NO_MATCH}]

\* the dict of the values, as MatchCategoryData.from_dict reads it
DictOfValues(v) ==
    [category |-> v.category, segments |-> v.count, words |-> v.count,
     characters |-> v.count, placeables |-> v.count, percent |-> v.percent,
     tm_words |-> v.tm_words, mt_words |-> v.mt_words, nt_words |-> NoneV]

CategoryInit ==
    /\ callIn \in CategoryValues
    /\ callOut = IdleCall
    /\ RateIdle /\ CostIdle /\ ParseIdle /\ MapIdle

\* MatchCategoryData(category=..., segments=..., ...)
Construct ==
    /\ callOut' = [op |-> "MatchCategoryData",
                   data |-> MatchCategoryData(callIn.category, callIn.count, callIn.count,
                                              callIn.count, callIn.count, callIn.percent,
                                              callIn.tm_words, callIn.mt_words, NoneV)]
    /\ UNCHANGED <<callIn, rateVars, costVars, parseVars, mapVars>>

\* MatchCategoryData.from_dict(d)
CategoryFromDict ==
    /\ callOut' = [op |-> "MatchCategoryData.from_dict",
                   data |-> MatchCategoryData_from_dict(DictOfValues(callIn))]
    /\ UNCHANGED <<callIn, rateVars, costVars, parseVars, mapVars>>

HoldsData == callOut.op \in {"MatchCategoryData", "MatchCategoryData.from_dict"}
HoldsFile == callOut.op \in {"set_category_data", "FileAnalysisData.from_dict"}

\* FileAnalysisData(...).set_category_data(key, data) with the object at hand
SetCategoryData ==
    /\ HoldsData
    /\ callOut' = [op |-> "set_category_data",
                   file |-> set_category_data(NewFileAnalysis(F_NOLANG, EN, DE),
                                              callIn.key, callOut.data)]
    /\ UNCHANGED <<callIn, rateVars, costVars, parseVars, mapVars>>

\* FileAnalysisData.from_dict of a dict holding the values under the key
FileFromDict ==
    /\ callOut' = [op |-> "FileAnalysisData.from_dict",
                   file |-> FileAnalysisData_from_dict(
                                FileDict(callIn.key :> DictOfValues(callIn)))]
    /\ UNCHANGED <<callIn, rateVars, costVars, parseVars, mapVars>>

\* ProjectAnalysisData(files=[file]).get_aggregated_categories()
AggregateCategories ==
    /\ HoldsFile
    /\ callOut' = [op |-> "get_aggregated_categories",
                   categories |-> get_aggregated_categories(<<callOut.file>>)]
    /\ UNCHANGED <<callIn, rateVars, costVars, parseVars, mapVars>>

CategoryNext ==
    Construct \/ CategoryFromDict \/ SetCategoryData \/ FileFromDict \/ AggregateCategories

SpecCategory == CategoryInit /\ [][CategoryNext]_vars

\* the MatchCategoryData objects at hand
DataAtHand ==
    IF HoldsData THEN {callOut.data}
    ELSE IF HoldsFile THEN Values(callOut.file.categories)
    ELSE IF callOut.op = "get_aggregated_categories" THEN Values(callOut.categories)
    ELSE {}

CountsInRange(d) ==
    /\ d.segments >= 0 /\ d.words >= 0 /\ d.characters >= 0 /\ d.placeables >= 0
    /\ 0 <= d.percent /\ d.percent <= PERCENT_MAX

\* C23: every MatchCategoryData has non-negative counts, a percent within
\* [0, 100], and no tm_words, mt_words or nt_words unless its category is 100%
C23_CategoryDataInvariant ==
    \A d \in DataAtHand :
        /\ CountsInRange(d)
        /\ d.category # EXACT_MATCH => ~has_tm_mt_breakdown(d)

\* C26: in every FileAnalysisData each entry of the categories map carries
\* the category it is stored under
C26_KeyIsCategory ==
    HoldsFile =>
        \A c \in DOMAIN callOut.file.categories :
            callOut.file.categories[c].category = c

ClientMatches(row, client_id) ==
    IF Truthy(client_id) THEN row.client_id = client_id ELSE IsNone(row.client_id)

\* a lookup that ignores the client and reads the general rates only
_find_specific_rate_mut(table, translator_id, language_pair_id, match_category_id, client_id) ==
    FirstOrNone(SelectSeq(table, LAMBDA r :
        /\ Applicable(r, translator_id, language_pair_id, match_category_id)
        /\ IsNone(r.client_id)))

\* fetchone() of the SELECT on the four columns
_find_specific_rate(table, translator_id, language_pair_id, match_category_id, client_id) ==
    FirstOrNone(SelectSeq(table, LAMBDA r :
        /\ Applicable(r, translator_id, language_pair_id, match_category_id)
        /\ ClientMatches(r, client_id)))

\* the keys of a dict in ascending order
RECURSIVE KeysInOrder(_)
KeysInOrder(S) ==
    IF S = {} THEN <<>>
    ELSE LET k == CHOOSE x \in S : \A y \in S : x <= y
         IN  <<k>> \o KeysInOrder(S \ {k})

NextRateId(table) ==
    IF table = <<>> THEN 1
    ELSE 1 + Get(table[Len(table)].id)

\* the categories of rates_data for which no rate exists yet
CategoriesToCreate(table, translator_id, language_pair_id, rates_data, client_id) ==
    SelectSeq(KeysInOrder(DOMAIN rates_data), LAMBDA k :
        IsNone(_find_specific_rate(table, translator_id, language_pair_id, k, client_id)))

\* the INSERTs of one transaction, in the order they were prepared
InsertedRates(first_id, translator_id, language_pair_id, rates_data, client_id, categories) ==
    [i \in 1..Len(categories) |->
        Rate(Some(first_id + i - 1), translator_id, client_id, language_pair_id,
             categories[i], rates_data[categories[i]], 0, FALSE, NOW)]

create_rate_set(table, translator_id, language_pair_id, rates_data, client_id) ==
    table \o InsertedRates(NextRateId(table), translator_id, language_pair_id,
                           rates_data, client_id,
                           CategoriesToCreate(table, translator_id, language_pair_id,
                                              rates_data, client_id))

\* Rate.update_rate followed by UPDATE ... WHERE id = ?
UpdatedRow(row, new_rate) ==
    [row EXCEPT !.rate_per_word = quantize(Max(0, new_rate), QUANTUM_RATE)]

RateToUpdate(table, row, translator_id, language_pair_id, rates_data, client_id) ==
    /\ row.match_category_id \in DOMAIN rates_data
    /\ _find_specific_rate(table, translator_id, language_pair_id,
                           row.match_category_id, client_id) = Some(row)

update_rate_set(table, translator_id, language_pair_id, rates_data, client_id) ==
    [i \in 1..Len(table) |->
        IF RateToUpdate(table, table[i], translator_id, language_pair_id, rates_data, client_id)
        THEN UpdatedRow(table[i], rates_data[table[i].match_category_id])
        ELSE table[i]]

delete_rate_set(table, translator_id, language_pair_id, client_id) ==
    SelectSeq(table, LAMBDA r :
        ~(/\ r.translator_id = translator_id
          /\ r.language_pair_id = language_pair_id
          /\ ClientMatches(r, client_id)))

MaxRateId == 6
RateSetCategories == {3, 8}
RateSetClients == {NoneV, Some(1)}
RateSetValues == {10000, 12345}
RatesData ==
    UNION {[S -> {v}] : S \in (SUBSET RateSetCategories) \ {{}}, v \in RateSetValues}
RateSetCalls ==
    [op : {"create_rate_set", "update_rate_set", "delete_rate_set"},
     rates_data : RatesData, client_id : RateSetClients]

\* the table is empty or holds a general rate; the first call is drawn
RateSetInit ==
    /\ rateTable \in {<<>>,
                       <<Rate(Some(1), TRANSLATOR, NoneV, LANGUAGE_PAIR, 3, 5000, 0, FALSE, 1)>>}
    /\ rateQuery = NoneV
    /\ rateResult = NoneV
    /\ languagePairs = StoredPairs
    /\ CostIdle /\ ParseIdle /\ MapIdle /\ CallIdle

CreateRateSet ==
    \E call \in {c \in RateSetCalls : c.op = "create_rate_set"} :
        /\ NextRateId(rateTable) + Cardinality(DOMAIN call.rates_data) - 1 <= MaxRateId
        /\ rateQuery' = call
        /\ rateTable' = create_rate_set(rateTable, TRANSLATOR, LANGUAGE_PAIR,
                                        call.rates_data, call.client_id)
        /\ rateResult' = [op |-> "create_rate_set", before |-> rateTable]
        /\ UNCHANGED <<languagePairs, costVars, parseVars, mapVars, callVars>>

UpdateRateSet ==
    \E call \in {c \in RateSetCalls : c.op = "update_rate_set"} :
        /\ rateQuery' = call
        /\ rateTable' = update_rate_set(rateTable, TRANSLATOR, LANGUAGE_PAIR,
                                        call.rates_data, call.client_id)
        /\ rateResult' = [op |-> "update_rate_set", before |-> rateTable]
        /\ UNCHANGED <<languagePairs, costVars, parseVars, mapVars, callVars>>

DeleteRateSet ==
    \E call \in {c \in RateSetCalls : c.op = "delete_rate_set"} :
        /\ rateQuery' = [call EXCEPT !.rates_data = EmptyMap]
        /\ rateTable' = delete_rate_set(rateTable, TRANSLATOR, LANGUAGE_PAIR, call.client_id)
        /\ rateResult' = [op |-> "delete_rate_set", before |-> rateTable]
        /\ UNCHANGED <<languagePairs, costVars, parseVars, mapVars, callVars>>

RateSetNext == CreateRateSet \/ UpdateRateSet \/ DeleteRateSet

SpecRateSet == RateSetInit /\ [][RateSetNext]_vars

SameTuple(a, b) ==
    /\ a.translator_id = b.translator_id
    /\ a.language_pair_id = b.language_pair_id
    /\ a.match_category_id = b.match_category_id
    /\ a.client_id = b.client_id

OneRatePerTuple(table) ==
    \A i \in 1..Len(table) : \A j \in 1..Len(table) :
        SameTuple(table[i], table[j]) => i = j

RowsOf(table) == {table[i] : i \in 1..Len(table)}

RateSetCreated == rateResult # NoneV /\ rateResult.op = "create_rate_set"

\* the rows of the table before the call on the tuple of category k
RatesBefore(k) ==
    {r \in RowsOf(rateResult.before) :
        /\ r.translator_id = TRANSLATOR /\ r.language_pair_id = LANGUAGE_PAIR
        /\ r.match_category_id = k /\ r.client_id = rateQuery.client_id}

\* C25: the table holds at most one rate per (translator, language pair,
\* match category, client) tuple after any sequence of create_rate_set,
\* update_rate_set and delete_rate_set; create_rate_set leaves every rate
\* that existed unchanged and adds a rate only for a tuple that had none
C25_OneRatePerTuple ==
    /\ OneRatePerTuple(rateTable)
    /\ RateSetCreated =>
           /\ RowsOf(rateResult.before) \subseteq RowsOf(rateTable)
           /\ \A r \in RowsOf(rateTable) \ RowsOf(rateResult.before) :
                  /\ r.match_category_id \in DOMAIN rateQuery.rates_data
                  /\ r.client_id = rateQuery.client_id
                  /\ RatesBefore(r.match_category_id) = {}

\* create_rate_set skipped a category that had a rate and created another
C25_Witness ==
    /\ RateSetCreated
    /\ Len(rateTable) > Len(rateResult.before)
    /\ \E k \in DOMAIN rateQuery.rates_data : RatesBefore(k) # {}
    /\ ~IsNone(rateQuery.client_id)

(***************************************************************************)
(* What resolve_rate_hierarchy may return                                  *)
(***************************************************************************)
RateReturned == RateResolved /\ ~IsNone(rateResult.rate)
ReturnedRate == Get(rateResult.rate)

\* C27: a rate returned by the lookup is one of the listed rates, has the
\* requested translator, language pair and match category, and belongs to
\* the requested client or to no client; with client_id None it belongs to
\* no client
C27_ReturnedRateIsApplicable ==
    RateReturned =>
        /\ ReturnedRate \in RowsOf(rateTable)
        /\ ReturnedRate.translator_id = rateQuery.translator_id
        /\ ReturnedRate.language_pair_id = rateQuery.language_pair_id
        /\ ReturnedRate.match_category_id = rateQuery.match_category_id
        /\ \/ ReturnedRate.client_id = rateQuery.client_id
           \/ IsNone(ReturnedRate.client_id)
        /\ IsNone(rateQuery.client_id) => IsNone(ReturnedRate.client_id)

\* the general rate was returned past another translator's rate and another
\* client's rate listed before it
C27_Witness ==
    /\ RateReturned
    /\ rateResult.op = "resolve_rate_hierarchy"
    /\ ~IsNone(rateQuery.client_id)
    /\ Len(rateTable) = 3
    /\ rateTable[1].translator_id # rateQuery.translator_id
    /\ rateTable[2].translator_id = rateQuery.translator_id
    /\ ~IsNone(rateTable[2].client_id)
    /\ rateTable[2].client_id # rateQuery.client_id
    /\ ReturnedRate = rateTable[3]
    /\ IsNone(ReturnedRate.client_id)

(***************************************************************************)
(* SpecPairs: sequences of LanguagePairRepository.get_or_create calls.     *)
(* The table definition is not part of the sources: language_pairs may or  *)
(* may not carry a UNIQUE constraint on the two codes, and an INSERT that  *)
(* violates it makes execute_query return None.                            *)
(***************************************************************************)
MaxPairs == 3

PairCodes == {<<>>, EN, <<"E", "N">>, <<"e", "n", " ">>, DE, <<"D", "E">>}

NextPairId(pairs) == IF pairs = <<>> THEN 1 ELSE 1 + pairs[Len(pairs)].id

\* BaseRepository.create on language_pairs: cursor.lastrowid of the INSERT,
\* or no cursor when the table rejects the row
InsertAccepted(pairs, model, unique) ==
    ~unique \/ PairRows(pairs, model.source_language, model.target_language) = <<>>

create_pair(pairs, model, unique) ==
    IF InsertAccepted(pairs, model, unique)
    THEN Append(pairs, [model EXCEPT !.id = NextPairId(pairs)])
    ELSE pairs

created_pair(pairs, model, unique) ==
    IF InsertAccepted(pairs, model, unique)
    THEN Some([model EXCEPT !.id = NextPairId(pairs)])
    ELSE NoneV

\* get_or_create: the table afterwards, and the pair returned
PairsAfterGetOrCreate(pairs, source_lang, target_lang, unique) ==
    IF ~IsNone(find_by_languages(pairs, source_lang, target_lang)) THEN pairs
    ELSE IF LanguagePair_is_valid(LanguagePair(NoneV, source_lang, target_lang))
         THEN create_pair(pairs, LanguagePair(NoneV, source_lang, target_lang), unique)
         ELSE pairs

PairOfGetOrCreate(pairs, source_lang, target_lang, unique) ==
    IF ~IsNone(find_by_languages(pairs, source_lang, target_lang))
    THEN find_by_languages(pairs, source_lang, target_lang)
    ELSE IF LanguagePair_is_valid(LanguagePair(NoneV, source_lang, target_lang))
         THEN created_pair(pairs, LanguagePair(NoneV, source_lang, target_lang), unique)
         ELSE NoneV

PairsInit ==
    /\ languagePairs = <<>>
    /\ callIn \in {[op |-> "schema", unique |-> u, source_lang |-> <<>>, target_lang |-> <<>>] :
                       u \in BOOLEAN}
    /\ callOut = IdleCall
    /\ rateTable = <<>> /\ rateQuery = NoneV /\ rateResult = NoneV
    /\ CostIdle /\ ParseIdle /\ MapIdle

GetOrCreate ==
    \E source_lang \in PairCodes, target_lang \in PairCodes :
        /\ Len(PairsAfterGetOrCreate(languagePairs, source_lang, target_lang, callIn.unique))
               <= MaxPairs
        /\ languagePairs' =
               PairsAfterGetOrCreate(languagePairs, source_lang, target_lang, callIn.unique)
        /\ callIn' = [op |-> "get_or_create", unique |-> callIn.unique,
                      source_lang |-> source_lang, target_lang |-> target_lang]
        /\ callOut' = [op |-> "get_or_create",
                       result |-> PairOfGetOrCreate(languagePairs, source_lang, target_lang,
                                                    callIn.unique)]
        /\ UNCHANGED <<rateTable, rateQuery, rateResult, costVars, parseVars, mapVars>>

PairsNext == GetOrCreate

SpecPairs == PairsInit /\ [][PairsNext]_vars

GotOrCreated == callOut.op = "get_or_create"

\* the codes of the call, lower-cased and without surrounding whitespace
CalledSource == Lower(Strip(callIn.source_lang))
CalledTarget == Lower(Strip(callIn.target_lang))

\* the stored rows for these codes, by position
RowsForCodes(source, target) ==
    {i \in 1..Len(languagePairs) :
        /\ Lower(Strip(languagePairs[i].source_language)) = source
        /\ Lower(Strip(languagePairs[i].target_language)) = target}

OnePairPerCodes ==
    \A i \in 1..Len(languagePairs) : \A j \in 1..Len(languagePairs) :
        (/\ Lower(Strip(languagePairs[i].source_language))
               = Lower(Strip(languagePairs[j].source_language))
         /\ Lower(Strip(languagePairs[i].target_language))
               = Lower(Strip(languagePairs[j].target_language))) => i = j

\* C28: after any sequence of get_or_create calls the store holds at most
\* one pair per lower-cased (source, target); a call returns None only
\* when its codes are empty or equal, and otherwise returns the one stored
\* pair of its lower-cased codes, whatever the letter case of the arguments
C28_GetOrCreateIdempotent ==
    /\ OnePairPerCodes
    /\ GotOrCreated =>
           /\ IsNone(callOut.result) => ~ValidPair(CalledSource, CalledTarget)
           /\ ~IsNone(callOut.result) =>
                  \A i \in RowsForCodes(CalledSource, CalledTarget) :
                      languagePairs[i] = Get(callOut.result)

(***************************************************************************)
(* SpecPaths: the two aggregations of one list of files,                   *)
(* CalculationService._aggregate_multiple_files and                        *)
(* CalculationService._aggregate_project_analysis over                     *)
(* ProjectAnalysisData.get_aggregated_categories                           *)
(***************************************************************************)
PathsInit ==
    /\ callIn \in AggregateInputs
    /\ callOut = [op |-> "paths", multiple |-> NoneV, project |-> NoneV]
    /\ RateIdle /\ CostIdle /\ ParseIdle /\ MapIdle

AggregateMultipleFiles ==
    /\ IsNone(callOut.multiple)
    /\ callOut' = [callOut EXCEPT !.multiple = Some(_aggregate_multiple_files(callIn.files))]
    /\ UNCHANGED <<callIn, rateVars, costVars, parseVars, mapVars>>

AggregateProjectAnalysis ==
    /\ IsNone(callOut.project)
    /\ callOut' = [callOut EXCEPT !.project =
                       Some(_aggregate_project_analysis(
                                [project_name |-> F_NOLANG, files |-> callIn.files]))]
    /\ UNCHANGED <<callIn, rateVars, costVars, parseVars, mapVars>>

PathsNext == AggregateMultipleFiles \/ AggregateProjectAnalysis

SpecPaths == PathsInit /\ [][PathsNext]_vars

BothAggregated ==
    callOut.op = "paths" /\ ~IsNone(callOut.multiple) /\ ~IsNone(callOut.project)

AggregatedFields ==
    {"segments", "words", "characters", "placeables", "percent",
     "tm_words", "mt_words", "nt_words"}

PathsAgreeOn(fields) ==
    BothAggregated =>
        \A c \in StandardSet : \A f \in fields :
            Get(callOut.multiple).categories[c][f] = Get(callOut.project).categories[c][f]

\* C29: for every list of files the two aggregations hold, for each of
\* the 8 standard categories, the same segments, words, characters,
\* placeables, percent, tm_words, mt_words and nt_words
C29_AggregationPathsAgree == PathsAgreeOn(AggregatedFields)

(***************************************************************************)
(* SpecValidation: ValidationResult objects built from ValidationResult()  *)
(* by add_error, add_warning and merge.  The objects and their message     *)
(* lists live on a heap (callIn): results hold references to lists, so     *)
(* that sharing a list between two results would show.                     *)
(***************************************************************************)
MaxResults == 3
MaxMessages == 3

Messages == {"a", "b"}

EmptyHeap == [results |-> <<>>, lists |-> <<>>]

\* `errors or []`: the list passed when it is non-empty, else a new list
ListOrNew(lists, ref) ==
    IF IsNone(ref) \/ lists[Get(ref)] = <<>> THEN Append(lists, <<>>) ELSE lists
RefOrNew(lists, ref) ==
    IF IsNone(ref) \/ lists[Get(ref)] = <<>> THEN Len(lists) + 1 ELSE Get(ref)

\* ValidationResult.__init__: the heap with the new object appended
ValidationResult(heap, valid, errors, warnings) ==
    [results |-> Append(heap.results,
                     [is_valid |-> valid,
                      errors |-> RefOrNew(heap.lists, errors),
                      warnings |-> RefOrNew(ListOrNew(heap.lists, errors), warnings)]),
     lists |-> ListOrNew(ListOrNew(heap.lists, errors), warnings)]

ErrorsOf(heap, self) == heap.lists[heap.results[self].errors]
WarningsOf(heap, self) == heap.lists[heap.results[self].warnings]

add_error(heap, self, message) ==
    [results |-> [heap.results EXCEPT ![self].is_valid = FALSE],
     lists |-> [heap.lists EXCEPT ![heap.results[self].errors] = Append(@, message)]]

add_warning(heap, self, message) ==
    [heap EXCEPT !.lists[heap.results[self].warnings] = Append(@, message)]

\* merge with the other operand's messages first
merge_reversed(heap, self, other) ==
    ValidationResult(
        [heap EXCEPT !.lists = Append(Append(@, ErrorsOf(heap, other) \o ErrorsOf(heap, self)),
                                      WarningsOf(heap, other) \o WarningsOf(heap, self))],
        heap.results[self].is_valid /\ heap.results[other].is_valid,
        Some(Len(heap.lists) + 1), Some(Len(heap.lists) + 2))

\* merge: the two concatenations are new lists, handed to the constructor
merge(heap, self, other) ==
    ValidationResult(
        [heap EXCEPT !.lists = Append(Append(@, ErrorsOf(heap, self) \o ErrorsOf(heap, other)),
                                      WarningsOf(heap, self) \o WarningsOf(heap, other))],
        heap.results[self].is_valid /\ heap.results[other].is_valid,
        Some(Len(heap.lists) + 1), Some(Len(heap.lists) + 2))

\* the messages held by all lists of the heap
TotalMessages(heap) == SumSeq([i \in 1..Len(heap.lists) |-> Len(heap.lists[i])])

ValidationInit ==
    /\ callIn = EmptyHeap
    /\ callOut = IdleCall
    /\ RateIdle /\ CostIdle /\ ParseIdle /\ MapIdle

NewValidationResult ==
    /\ Len(callIn.results) < MaxResults
    /\ callIn' = ValidationResult(callIn, TRUE, NoneV, NoneV)
    /\ callOut' = [op |-> "ValidationResult", self |-> Len(callIn.results) + 1,
                   other |-> 0, before |-> callIn]
    /\ UNCHANGED <<rateVars, costVars, parseVars, mapVars>>

AddError ==
    \E self \in 1..Len(callIn.results), message \in Messages :
        /\ TotalMessages(callIn) < MaxMessages
        /\ callIn' = add_error(callIn, self, message)
        /\ callOut' = [op |-> "add_error", self |-> self, other |-> 0, before |-> callIn]
        /\ UNCHANGED <<rateVars, costVars, parseVars, mapVars>>

AddWarning ==
    \E self \in 1..Len(callIn.results), message \in Messages :
        /\ TotalMessages(callIn) < MaxMessages
        /\ callIn' = add_warning(callIn, self, message)
        /\ callOut' = [op |-> "add_warning", self |-> self, other |-> 0, before |-> callIn]
        /\ UNCHANGED <<rateVars, costVars, parseVars, mapVars>>

Merge ==
    \E self \in 1..Len(callIn.results), other \in 1..Len(callIn.results) :
        /\ Len(callIn.results) < MaxResults
        /\ callIn' = merge(callIn, self, other)
        /\ callOut' = [op |-> "merge", self |-> self, other |-> other, before |-> callIn]
        /\ UNCHANGED <<rateVars, costVars, parseVars, mapVars>>

ValidationNext == NewValidationResult \/ AddError \/ AddWarning \/ Merge

SpecValidation == ValidationInit /\ [][ValidationNext]_vars

\* what a result shows: is_valid and the contents of its two lists
ResultView(heap, i) ==
    [is_valid |-> heap.results[i].is_valid,
     errors |-> ErrorsOf(heap, i),
     warnings |-> WarningsOf(heap, i)]

Merged == callOut.op = "merge"
MergedResult == Len(callIn.results)

\* C30: on every result is_valid holds exactly when errors is empty;
\* add_warning leaves is_valid as it was; merge returns a result whose
\* errors and warnings are self's followed by other's, and every result
\* that existed before the merge, both operands included, is unchanged
C30_ValidationResult ==
    /\ \A i \in 1..Len(callIn.results) :
           callIn.results[i].is_valid <=> (ErrorsOf(callIn, i) = <<>>)
    /\ callOut.op = "add_warning" =>
           callIn.results[callOut.self].is_valid
               = callOut.before.results[callOut.self].is_valid
    /\ Merged =>
           /\ Len(callIn.results) = Len(callOut.before.results) + 1
           /\ ErrorsOf(callIn, MergedResult)
                  = ErrorsOf(callOut.before, callOut.self)
                        \o ErrorsOf(callOut.before, callOut.other)
           /\ WarningsOf(callIn, MergedResult)
                  = WarningsOf(callOut.before, callOut.self)
                        \o WarningsOf(callOut.before, callOut.other)
           /\ \A i \in 1..Len(callOut.before.results) :
                  ResultView(callIn, i) = ResultView(callOut.before, i)

\* a merge of two different results with different errors, one of them
\* carrying a warning
C30_Witness ==
    /\ Merged /\ callOut.self # callOut.other
    /\ ErrorsOf(callIn, MergedResult) = <<"a", "b">>
    /\ WarningsOf(callIn, MergedResult) # <<>>
    /\ ~callIn.results[MergedResult].is_valid

====
